---- MODULE Spec2Model ----
(***************************************************************************)
(* Model of src/src/services/ipnsUpdater.ts: the IPNS record engine.       *)
(*                                                                         *)
(* One engine call (resolveIPNSFromPublicKey, resolveIPNSFromPrivateKey or *)
(* updateIPNSRecord) runs at a time; every await of the source is a step   *)
(* boundary, and the collaborators (gateway fetch, key decoder, record     *)
(* signer, serializer, routing put, Helia start and stop) answer           *)
(* nondeterministically.  Strings that the code inspects character by      *)
(* character (gateway header values, content hashes) are sequences of      *)
(* one-character strings.                                                  *)
(***************************************************************************)
EXTENDS Integers, Sequences, FiniteSets, TLC

(* ------------------------------ bounds -------------------------------- *)

\* longest X-Ipfs-Roots header value a gateway answers with
MaxHeaderLen == 3

\* longest content-hash argument handed to updateIPNSRecord
MaxHashLen == 2

\* Date.now() takes the values 0..MaxClock
MaxClock == 1

\* most entries of a submitted JSON object
MaxEntries == 2

(* ----------------------------- strings -------------------------------- *)

Chars == {" ", "a", "b"}

RECURSIVE Strings(_)
Strings(n) ==
  IF n = 0 THEN {<<>>}
  ELSE LET S == Strings(n - 1) IN S \cup {Append(s, c) : s \in S, c \in Chars}

IsWhiteSpace(c) == c = " "

RECURSIVE trimStart(_)
trimStart(s) ==
  IF s # <<>> /\ IsWhiteSpace(Head(s)) THEN trimStart(Tail(s)) ELSE s

RECURSIVE trimEnd(_)
trimEnd(s) ==
  IF s # <<>> /\ IsWhiteSpace(s[Len(s)])
  THEN trimEnd(SubSeq(s, 1, Len(s) - 1))
  ELSE s

\* String.prototype.trim
trim(s) == trimEnd(trimStart(s))

\* JavaScript truthiness of the value of headers.get(): null is <<>>, a
\* present header value h is <<h>>; null and the empty string are falsy
Truthy(hdr) == hdr # <<>> /\ hdr[1] # <<>>

\* CID.parse accepts a string that starts with a multibase prefix (here "b",
\* base32) followed by at least one character of that base's alphabet; the
\* empty string, white space and a missing prefix make it throw
Base32Chars == {"a", "b"}

CIDparses(s) ==
  /\ Len(s) >= 2
  /\ s[1] = "b"
  /\ \A i \in 2..Len(s) : s[i] \in Base32Chars

(* --------------------------- thrown values ---------------------------- *)

Err(m) == [isError |-> TRUE, message |-> m]

\* what a collaborator may throw or reject with: an Error with a message,
\* an Error with an empty message, or a value that is not an Error
Thrown == {Err("collaborator failed"), Err(""), [isError |-> FALSE]}

(* ------------------------------- keys --------------------------------- *)

KeyInputs == {"edA", "edB", "rsa", "garbage"}

\* privateKeyFromProtobuf(uint8ArrayFromString(privateKeyBase64, 'base64'))
privateKeyFromProtobuf(k) ==
  CASE k = "edA" -> [threw |-> FALSE, key |-> [type |-> "Ed25519", pub |-> "A"]]
    [] k = "edB" -> [threw |-> FALSE, key |-> [type |-> "Ed25519", pub |-> "B"]]
    [] k = "rsa" -> [threw |-> FALSE, key |-> [type |-> "RSA", pub |-> "R"]]
    [] OTHER     -> [threw |-> TRUE, error |-> Err("malformed key")]

PubKeys == {"A", "B", "R"}

\* getIPNSNameFromKeypair with its guard inverted: '' for every key
getIPNSNameFromKeypairNoKey(keypair) == ""

\* peerIdFromPrivateKey(privateKey).toCID().toString(base36)
getIPNSNameFromKeypair(keypair) ==
  CASE keypair.pub = "A" -> "k51A"
    [] keypair.pub = "B" -> "k51B"
    [] OTHER             -> "k2kR"

Identities == {"k51A", "k51B"}

(* ----------------------- collaborator outcomes ------------------------ *)

Ok == [threw |-> FALSE]

Throw(e) == [threw |-> TRUE, error |-> e]

\* how an awaited collaborator call settles
Outcomes == {Ok} \cup {Throw(e) : e \in Thrown}

Statuses == {200, 404}

\* Response.ok
ResponseOk(status) == status \in 200..299

\* headers.get('X-Ipfs-Roots'): <<>> is null, <<h>> a present value h
HeaderValues == {<<>>} \cup {<<h>> : h \in Strings(MaxHeaderLen)}

\* how fetch(url, {method: 'HEAD'}) settles
FetchOutcomes ==
  {[kind |-> "reject", error |-> e] : e \in Thrown}
    \cup {[kind |-> "response", status |-> st, roots |-> hdr] :
            st \in Statuses, hdr \in HeaderValues}

(* ----------------------------- resolution ----------------------------- *)

\* PubResolutionMethods with the two strategies in the other order
PubResolutionMethodsReversed ==
  << [url |-> "https://cloudflare-ipfs.com/ipns/",
      failText |-> "Cloudflare gateway failed"],
     [url |-> "https://ipfs.io/ipns/",
      failText |-> "Gateway header resolution failed"] >>

\* the strategy list of resolveIPNSFromPublicKey
PubResolutionMethods ==
  << [url |-> "https://ipfs.io/ipns/",
      failText |-> "Gateway header resolution failed"],
     [url |-> "https://cloudflare-ipfs.com/ipns/",
      failText |-> "Cloudflare gateway failed"] >>

\* the strategy list of resolveIPNSFromPrivateKey
PrivResolutionMethods ==
  << [url |-> "https://ipfs.io/ipns/",
      failText |-> "Gateway header resolution failed"],
     [url |-> "https://cloudflare-ipfs.com/ipns/",
      failText |-> "Cloudflare gateway failed"] >>

\* the body of one strategy once its fetch has settled: the trimmed routing
\* header of an ok response, otherwise a throw
GatewayMethod(failText, outcome) ==
  IF outcome.kind = "reject" THEN Throw(outcome.error)
  ELSE IF ResponseOk(outcome.status) /\ Truthy(outcome.roots)
       THEN [threw |-> FALSE, value |-> trim(outcome.roots[1])]
       ELSE Throw([isError |-> TRUE, message |-> failText,
                   status |-> outcome.status])

\* the outer catch of the two resolve functions
catchResolve(e) ==
  [success |-> FALSE,
   error |-> IF e.isError THEN e.message ELSE "Unknown IPNS resolve error"]

\* PubLoop without the return inside the loop: a strategy's success does not
\* end the loop while a strategy remains
PubLoopNoReturn(i, m, name) ==
  IF i < Len(PubResolutionMethods)
  THEN [return |-> FALSE, next |-> i + 1]
  ELSE IF ~m.threw
       THEN [return |-> TRUE,
             value |-> [success |-> TRUE, ipfsHash |-> m.value,
                        ipnsName |-> name]]
       ELSE [return |-> TRUE,
             value |-> [success |-> FALSE, ipnsName |-> name,
                        error |-> "All resolution methods failed"]]

\* PubLoop retrying a strategy that failed until it answers
PubLoopRetrying(i, m, name) ==
  IF ~m.threw
  THEN [return |-> TRUE,
        value |-> [success |-> TRUE, ipfsHash |-> m.value, ipnsName |-> name]]
  ELSE [return |-> FALSE, next |-> i]

\* PubLoop giving up at the first strategy that fails
PubLoopFailFast(i, m, name) ==
  IF ~m.threw
  THEN [return |-> TRUE,
        value |-> [success |-> TRUE, ipfsHash |-> m.value, ipnsName |-> name]]
  ELSE [return |-> TRUE,
        value |-> [success |-> FALSE, ipnsName |-> name,
                   error |-> "All resolution methods failed"]]

\* the for loop of resolveIPNSFromPublicKey after strategy i gave m
PubLoop(i, m, name) ==
  IF ~m.threw
  THEN [return |-> TRUE,
        value |-> [success |-> TRUE, ipfsHash |-> m.value, ipnsName |-> name]]
  ELSE IF i < Len(PubResolutionMethods)
       THEN [return |-> FALSE, next |-> i + 1]
       ELSE [return |-> TRUE,
             value |-> [success |-> FALSE, ipnsName |-> name,
                        error |-> "All resolution methods failed"]]

\* PrivLoop letting the last strategy's error escape to the outer catch
PrivLoopRethrow(i, m, name) ==
  IF ~m.threw
  THEN [return |-> TRUE,
        value |-> [success |-> TRUE, ipfsHash |-> m.value, ipnsName |-> name]]
  ELSE IF i < Len(PrivResolutionMethods)
       THEN [return |-> FALSE, next |-> i + 1]
       ELSE [return |-> TRUE, value |-> catchResolve(m.error)]

\* the for loop of resolveIPNSFromPrivateKey after strategy i gave m
PrivLoop(i, m, name) ==
  IF ~m.threw
  THEN [return |-> TRUE,
        value |-> [success |-> TRUE, ipfsHash |-> m.value, ipnsName |-> name]]
  ELSE IF i < Len(PrivResolutionMethods)
       THEN [return |-> FALSE, next |-> i + 1]
       ELSE [return |-> TRUE,
             value |-> [success |-> FALSE, ipnsName |-> name,
                        error |-> "All resolution methods failed"]]

\* PrivParseKey without the key-type check
PrivParseKeyAnyType(k) ==
  LET d == privateKeyFromProtobuf(k) IN
  IF d.threw THEN d
  ELSE [threw |-> FALSE, keypair |-> d.key,
        ipnsName |-> getIPNSNameFromKeypair(d.key)]

\* key decoding and key-type check of resolveIPNSFromPrivateKey
PrivParseKey(k) ==
  LET d == privateKeyFromProtobuf(k) IN
  IF d.threw THEN d
  ELSE IF d.key.type # "Ed25519"
       THEN Throw(Err("Only libp2p Ed25519 keys are supported"))
       ELSE [threw |-> FALSE, keypair |-> d.key,
             ipnsName |-> getIPNSNameFromKeypair(d.key)]

(* ------------------------------ publish ------------------------------- *)

DEFAULT_TTL_MS == 60 * 1000

\* 365 * 24 * 60 * 60 * 1000 ms in the source; kept in days, the value in
\* milliseconds exceeds the integers of the model checker
DEFAULT_LIFETIME_DAYS == 365

\* UpdateParse without the key-type check
UpdateParseNoTypeCheck(k, h, clock) ==
  LET d == privateKeyFromProtobuf(k)
      decodeOk   == [call |-> "privateKeyFromProtobuf", status |-> "ok"]
      decodeBad  == [call |-> "privateKeyFromProtobuf", status |-> "threw"]
      cidOk      == [call |-> "CID.parse", status |-> "ok"]
      cidBad     == [call |-> "CID.parse", status |-> "threw"]
  IN
  IF d.threw
  THEN [threw |-> TRUE, error |-> d.error, steps |-> <<decodeBad>>]
  ELSE IF ~CIDparses(h)
  THEN [threw |-> TRUE, error |-> Err("invalid CID"),
        steps |-> <<decodeOk, cidBad>>]
  ELSE [threw |-> FALSE, keypair |-> d.key, cid |-> h,
        ipnsName |-> getIPNSNameFromKeypair(d.key),
        sequenceNumber |-> clock,
        steps |-> <<decodeOk, cidOk>>]

\* UpdateParse swallowing the failure of CID.parse and going on with the
\* unparsed string
UpdateParseIgnoresBadCID(k, h, clock) ==
  LET d == privateKeyFromProtobuf(k)
      decodeOk   == [call |-> "privateKeyFromProtobuf", status |-> "ok"]
      decodeBad  == [call |-> "privateKeyFromProtobuf", status |-> "threw"]
      typeOk     == [call |-> "keyTypeCheck", status |-> "ok"]
      typeBad    == [call |-> "keyTypeCheck", status |-> "threw"]
      cidOk      == [call |-> "CID.parse", status |-> "ok"]
      cidBad     == [call |-> "CID.parse", status |-> "threw"]
  IN
  IF d.threw
  THEN [threw |-> TRUE, error |-> d.error, steps |-> <<decodeBad>>]
  ELSE IF d.key.type # "Ed25519"
  THEN [threw |-> TRUE, error |-> Err("Only libp2p Ed25519 keys are supported"),
        steps |-> <<decodeOk, typeBad>>]
  ELSE [threw |-> FALSE, keypair |-> d.key, cid |-> h,
        ipnsName |-> getIPNSNameFromKeypair(d.key),
        sequenceNumber |-> clock,
        steps |-> <<decodeOk, typeOk,
                    IF CIDparses(h) THEN cidOk ELSE cidBad>>]

\* key decoding, key-type check, CID.parse, name derivation and Date.now()
\* of updateIPNSRecord: the synchronous stretch between createHeliaHTTP and
\* createIPNSRecord.  steps lists the calls made, in order
UpdateParse(k, h, clock) ==
  LET d == privateKeyFromProtobuf(k)
      decodeOk   == [call |-> "privateKeyFromProtobuf", status |-> "ok"]
      decodeBad  == [call |-> "privateKeyFromProtobuf", status |-> "threw"]
      typeOk     == [call |-> "keyTypeCheck", status |-> "ok"]
      typeBad    == [call |-> "keyTypeCheck", status |-> "threw"]
      cidOk      == [call |-> "CID.parse", status |-> "ok"]
      cidBad     == [call |-> "CID.parse", status |-> "threw"]
  IN
  IF d.threw
  THEN [threw |-> TRUE, error |-> d.error, steps |-> <<decodeBad>>]
  ELSE IF d.key.type # "Ed25519"
  THEN [threw |-> TRUE, error |-> Err("Only libp2p Ed25519 keys are supported"),
        steps |-> <<decodeOk, typeBad>>]
  ELSE IF ~CIDparses(h)
  THEN [threw |-> TRUE, error |-> Err("invalid CID"),
        steps |-> <<decodeOk, typeOk, cidBad>>]
  ELSE [threw |-> FALSE, keypair |-> d.key, cid |-> h,
        ipnsName |-> getIPNSNameFromKeypair(d.key),
        sequenceNumber |-> clock,
        steps |-> <<decodeOk, typeOk, cidOk>>]

\* the record createIPNSRecord(keypair, cid, sequenceNumber, lifetime,
\* {ttlNs}) resolves with
createIPNSRecord(kp, c, seq) ==
  [value |-> c, sequence |-> seq, lifetimeDays |-> DEFAULT_LIFETIME_DAYS,
   ttlMs |-> DEFAULT_TTL_MS, pubKey |-> kp.pub, signedBy |-> kp.pub]

\* marshalIPNSRecord: the record's fields in a fixed order
marshalIPNSRecord(r) ==
  <<r.value, r.sequence, r.lifetimeDays, r.ttlMs, r.pubKey, r.signedBy>>

\* multihashToIPNSRoutingKey applied to a fixed multihash instead of the
\* key's own
multihashToIPNSRoutingKeyFixed(kp) == <<"/ipns/", "A">>

\* multihashToIPNSRoutingKey(keypair.publicKey.toMultihash())
multihashToIPNSRoutingKey(kp) == <<"/ipns/", kp.pub>>

\* how a call completes: it returns a value or it throws (rejects)
Return(r) == [kind |-> "return", value |-> r]

Rethrow(e) == [kind |-> "throw", error |-> e]

\* the catch block of updateIPNSRecord
catchUpdate(e) ==
  [success |-> FALSE,
   error |-> IF e.isError THEN e.message ELSE "Unknown IPNS update error"]

\* finallyStops with the test inverted
finallyStopsNegated(h) == h = "undefined"

\* the finally block stops Helia when an instance was created
finallyStops(h) == h # "undefined"

\* stopCompletion without the try/catch around helia.stop()
stopCompletionUnguarded(o, r) ==
  IF o.threw THEN Rethrow(o.error) ELSE Return(r)

\* the try/catch around helia.stop(): a failing stop is logged and the
\* pending result is returned
stopCompletion(o, r) == Return(r)

(* ------------------------------- state -------------------------------- *)

VARIABLES
  pc,               \* "idle", "fetch", "createHeliaHTTP", "createIPNSRecord",
                    \* "put", "stop", "done"
  op,               \* the engine function that is running, "none" when idle
  ipnsPublicKey,    \* argument of resolveIPNSFromPublicKey
  privateKeyBase64, \* argument of resolveIPNSFromPrivateKey, updateIPNSRecord
  ipfsHash,         \* argument of updateIPNSRecord
  keypair,          \* <<>> or <<the decoded key>>
  ipnsName,         \* the name derived from the key
  cid,              \* the parsed content hash
  sequenceNumber,   \* BigInt(Date.now())
  idx,              \* position of the for loop in the strategy list
  helia,            \* "undefined", "running", "stopped", "stop failed"
  result,           \* <<>> or <<the value the try or catch block returns>>
  ret,              \* <<>> or <<how the call completed>>
  trace,            \* the collaborator calls of this call, in order
  now,              \* Date.now()
  backend,          \* routing backend: per public key <<>> or <<record bytes>>
  configEnvs,       \* ConfigManager state: <<>> (undefined) or <<__env>>
  configStructure,  \* ConfigManager state: <<>> (null) or <<the environments>>
  fetchedConfigs,   \* ConfigManager state: environment name -> entries
  currentIPFSHashes,\* ConfigManager state: environment name -> hash
  error,            \* ConfigManager state: <<>> (null) or <<message>>
  activeTab,        \* ConfigManager state: name of the selected environment
  cancelled,        \* handleReset ran while the running call was pending
  parked,           \* the suspended invocation: its position and locals
  cur,              \* which of the two invocations is running, 1 or 2
  parsed,           \* ConfigUpload: <<>> or <<the JSON value last submitted>>
  validation,       \* ConfigUpload: <<>> or <<what validateConfigStructure gave>>
  formError,        \* ConfigUpload state error: <<>> (null) or <<message>>
  rawJsonInput,     \* ConfigUpload state: the text in the textarea
  file,             \* <<>> or <<the text of the file the user has picked>>
  upc,              \* uploadConfigToIPFS: "idle", "find", "delete", "upload",
                    \* "done"
  uargs,            \* its arguments environmentName and quickNodeApiKey
  existingObject,   \* <<>> (null) or <<the pinned object found>>
  utrace,           \* the HTTP requests of this call, in order
  uret,             \* <<>> or <<the UploadResult returned>>
  pins,             \* pinning service: per file name <<>> or <<the object>>
  pinnedBefore,     \* pins when the running uploadConfigToIPFS was called
  wpc,              \* uploadAndUpdateIPNS: "idle", "upload", "publish", "done"
  wargs,            \* its argument environmentConfig: the private key
  wtrace,           \* the collaborator calls of this call, in order
  wret,             \* <<>> or <<how the call completed>>
  loading,          \* ConfigManager: environment name to loading flag
  fetches,          \* the running handleFetch of each environment
  rawJsonValue,     \* EnvironmentTab state, per tab: the raw JSON text
  uploadResult      \* EnvironmentTab state, per tab: <<>> (null) or <<message>>

locals == <<op, ipnsPublicKey, privateKeyBase64, ipfsHash, keypair, ipnsName,
            cid, sequenceNumber, idx, helia, result, ret, trace>>

appVars == <<configEnvs, configStructure, fetchedConfigs, currentIPFSHashes,
             error, activeTab>>

concVars == <<parked, cur>>

\* the environments a configuration may name
EnvNames == {"dev", "prod"}

\* no handleFetch of an environment is running.  stale is history: the
\* application was reset after the call had started
NoFetch ==
  [pc |-> "idle", ipnsKey |-> "", ipnsPrivateKey |-> "", stale |-> FALSE,
   calls |-> <<>>]

formVars == <<parsed, validation, formError, rawJsonInput, file>>

uploadVars == <<upc, uargs, existingObject, utrace, uret, pins, pinnedBefore>>

publishVars == <<wpc, wargs, wtrace, wret>>

fetchVars == <<loading, fetches>>

tabVars == <<rawJsonValue, uploadResult>>

uiVars == <<formVars, uploadVars, publishVars, fetchVars, tabVars>>

others == <<appVars, cancelled, concVars, uiVars>>

vars == <<pc, locals, now, backend, others>>

\* position and locals of an invocation that has not started
IdleCall ==
  [pc |-> "idle", op |-> "none", ipnsPublicKey |-> "",
   privateKeyBase64 |-> "", ipfsHash |-> <<>>, keypair |-> <<>>,
   ipnsName |-> "", cid |-> <<>>, sequenceNumber |-> 0, idx |-> 0,
   helia |-> "undefined", result |-> <<>>, ret |-> <<>>, trace |-> <<>>]

Fresh ==
  /\ ipnsPublicKey' = ""
  /\ privateKeyBase64' = ""
  /\ ipfsHash' = <<>>
  /\ keypair' = <<>>
  /\ ipnsName' = ""
  /\ cid' = <<>>
  /\ sequenceNumber' = 0
  /\ idx' = 0
  /\ helia' = "undefined"
  /\ result' = <<>>
  /\ ret' = <<>>
  /\ trace' = <<>>

Init ==
  /\ pc = "idle"
  /\ op = "none"
  /\ ipnsPublicKey = ""
  /\ privateKeyBase64 = ""
  /\ ipfsHash = <<>>
  /\ keypair = <<>>
  /\ ipnsName = ""
  /\ cid = <<>>
  /\ sequenceNumber = 0
  /\ idx = 0
  /\ helia = "undefined"
  /\ result = <<>>
  /\ ret = <<>>
  /\ trace = <<>>
  /\ now = 0
  /\ backend = [p \in PubKeys |-> <<>>]
  /\ configEnvs = <<>>
  /\ configStructure = <<>>
  /\ fetchedConfigs = <<>>
  /\ currentIPFSHashes = <<>>
  /\ error = <<>>
  /\ activeTab = ""
  /\ cancelled = FALSE
  /\ parked = IdleCall
  /\ cur = 1
  /\ parsed = <<>>
  /\ validation = <<>>
  /\ formError = <<>>
  /\ rawJsonInput = [kind |-> "blank"]
  /\ file = <<>>
  /\ upc = "idle"
  /\ uargs = <<>>
  /\ existingObject = <<>>
  /\ utrace = <<>>
  /\ uret = <<>>
  /\ pins = [e \in EnvNames |-> <<>>]
  /\ pinnedBefore = [e \in EnvNames |-> <<>>]
  /\ wpc = "idle"
  /\ wargs = <<>>
  /\ wtrace = <<>>
  /\ wret = <<>>
  /\ loading = <<>>
  /\ fetches = [n \in EnvNames |-> NoFetch]
  /\ rawJsonValue = [n \in EnvNames |-> [kind |-> "blank"]]
  /\ uploadResult = [n \in EnvNames |-> <<>>]

Pending(c) == [call |-> c, status |-> "pending"]

FetchCall(methods, i, name) ==
  [call |-> "fetch", url |-> methods[i].url, name |-> name,
   status |-> "pending"]

\* the last call of the trace settles
Settled(tr, m) ==
  [tr EXCEPT ![Len(tr)] =
     IF m.threw
     THEN [call |-> tr[Len(tr)].call, url |-> tr[Len(tr)].url,
           name |-> tr[Len(tr)].name, status |-> "threw"]
     ELSE [call |-> tr[Len(tr)].call, url |-> tr[Len(tr)].url,
           name |-> tr[Len(tr)].name, status |-> "ok", value |-> m.value]]

SettledCall(tr, o) ==
  [tr EXCEPT ![Len(tr)] =
     [call |-> tr[Len(tr)].call,
      status |-> IF o.threw THEN "threw" ELSE "ok"]]

(* ------------------------------ actions ------------------------------- *)

\* ResolvePubCall racing the strategies: every fetch is issued at once
ResolvePubCallRacing(id) ==
  /\ pc = "idle"
  /\ op' = "resolveIPNSFromPublicKey"
  /\ ipnsPublicKey' = id
  /\ idx' = 1
  /\ trace' = <<FetchCall(PubResolutionMethods, 1, id),
                FetchCall(PubResolutionMethods, 2, id)>>
  /\ pc' = "fetch"
  /\ UNCHANGED <<privateKeyBase64, ipfsHash, keypair, ipnsName, cid,
                 sequenceNumber, helia, result, ret, now, backend>>
  /\ UNCHANGED others

\* resolveIPNSFromPublicKey(id) is called and issues the first fetch
ResolvePubCall(id) ==
  /\ pc = "idle"
  /\ op' = "resolveIPNSFromPublicKey"
  /\ ipnsPublicKey' = id
  /\ idx' = 1
  /\ trace' = <<FetchCall(PubResolutionMethods, 1, id)>>
  /\ pc' = "fetch"
  /\ UNCHANGED <<privateKeyBase64, ipfsHash, keypair, ipnsName, cid,
                 sequenceNumber, helia, result, ret, now, backend>>
  /\ UNCHANGED others

\* the fetch of strategy idx of resolveIPNSFromPublicKey settles
ResolvePubSettle(outcome) ==
  /\ pc = "fetch"
  /\ op = "resolveIPNSFromPublicKey"
  /\ LET m == GatewayMethod(PubResolutionMethods[idx].failText, outcome)
         l == PubLoop(idx, m, ipnsPublicKey)
     IN IF l.return
        THEN /\ ret' = <<Return(l.value)>>
             /\ trace' = Settled(trace, m)
             /\ pc' = "done"
             /\ idx' = idx
        ELSE /\ idx' = l.next
             /\ trace' = Append(Settled(trace, m),
                                FetchCall(PubResolutionMethods, l.next,
                                          ipnsPublicKey))
             /\ pc' = "fetch"
             /\ ret' = ret
  /\ UNCHANGED <<op, ipnsPublicKey, privateKeyBase64, ipfsHash, keypair,
                 ipnsName, cid, sequenceNumber, helia, result, now, backend>>
  /\ UNCHANGED others

\* resolveIPNSFromPrivateKey(k) is called: the key is decoded and checked,
\* the name derived and the first fetch issued
ResolvePrivCall(k) ==
  /\ pc = "idle"
  /\ op' = "resolveIPNSFromPrivateKey"
  /\ privateKeyBase64' = k
  /\ LET p == PrivParseKey(k) IN
     IF p.threw
     THEN /\ ret' = <<Return(catchResolve(p.error))>>
          /\ pc' = "done"
          /\ trace' = <<>>
          /\ UNCHANGED <<keypair, ipnsName, idx>>
     ELSE /\ keypair' = <<p.keypair>>
          /\ ipnsName' = p.ipnsName
          /\ idx' = 1
          /\ trace' = <<FetchCall(PrivResolutionMethods, 1, p.ipnsName)>>
          /\ pc' = "fetch"
          /\ ret' = ret
  /\ UNCHANGED <<ipnsPublicKey, ipfsHash, cid, sequenceNumber, helia, result,
                 now, backend>>
  /\ UNCHANGED others

\* the fetch of strategy idx of resolveIPNSFromPrivateKey settles
ResolvePrivSettle(outcome) ==
  /\ pc = "fetch"
  /\ op = "resolveIPNSFromPrivateKey"
  /\ LET m == GatewayMethod(PrivResolutionMethods[idx].failText, outcome)
         l == PrivLoop(idx, m, ipnsName)
     IN IF l.return
        THEN /\ ret' = <<Return(l.value)>>
             /\ trace' = Settled(trace, m)
             /\ pc' = "done"
             /\ idx' = idx
        ELSE /\ idx' = l.next
             /\ trace' = Append(Settled(trace, m),
                                FetchCall(PrivResolutionMethods, l.next,
                                          ipnsName))
             /\ pc' = "fetch"
             /\ ret' = ret
  /\ UNCHANGED <<op, ipnsPublicKey, privateKeyBase64, ipfsHash, keypair,
                 ipnsName, cid, sequenceNumber, helia, result, now, backend>>
  /\ UNCHANGED others

\* the try or catch block of updateIPNSRecord has produced r; the finally
\* block runs with the Helia instance h
ExitTry(r, h, tr) ==
  /\ result' = <<r>>
  /\ IF finallyStops(h)
     THEN /\ trace' = Append(tr, Pending("helia.stop"))
          /\ pc' = "stop"
          /\ ret' = ret
     ELSE /\ trace' = tr
          /\ pc' = "done"
          /\ ret' = <<Return(r)>>

\* updateIPNSRecord(h, k) is called and awaits createHeliaHTTP()
UpdateCall(h, k) ==
  /\ pc = "idle"
  /\ op' = "updateIPNSRecord"
  /\ ipfsHash' = h
  /\ privateKeyBase64' = k
  /\ trace' = <<Pending("createHeliaHTTP")>>
  /\ pc' = "createHeliaHTTP"
  /\ UNCHANGED <<ipnsPublicKey, keypair, ipnsName, cid, sequenceNumber, idx,
                 helia, result, ret, now, backend>>
  /\ UNCHANGED others

\* createHeliaHTTP() settles; on success the key and the content hash are
\* parsed and createIPNSRecord is awaited
HeliaSettle(o) ==
  /\ pc = "createHeliaHTTP"
  /\ IF o.threw
     THEN /\ ExitTry(catchUpdate(o.error), helia, SettledCall(trace, o))
          /\ UNCHANGED <<helia, keypair, ipnsName, cid, sequenceNumber>>
     ELSE /\ helia' = "running"
          /\ LET p == UpdateParse(privateKeyBase64, ipfsHash, now) IN
             IF p.threw
             THEN /\ ExitTry(catchUpdate(p.error), "running",
                             SettledCall(trace, o) \o p.steps)
                  /\ UNCHANGED <<keypair, ipnsName, cid, sequenceNumber>>
             ELSE /\ keypair' = <<p.keypair>>
                  /\ ipnsName' = p.ipnsName
                  /\ cid' = p.cid
                  /\ sequenceNumber' = p.sequenceNumber
                  /\ trace' = (SettledCall(trace, o) \o p.steps)
                                \o <<Pending("createIPNSRecord")>>
                  /\ pc' = "createIPNSRecord"
                  /\ UNCHANGED <<result, ret>>
  /\ UNCHANGED <<op, ipnsPublicKey, privateKeyBase64, ipfsHash, idx, now,
                 backend>>
  /\ UNCHANGED others

PutCall(kp, r) ==
  [call |-> "helia.routing.put", status |-> "pending",
   routingKey |-> multihashToIPNSRoutingKey(kp),
   marshaledRecord |-> marshalIPNSRecord(r), record |-> r]

\* createIPNSRecord settles; on success the record is marshalled (which may
\* throw), the routing key computed and helia.routing.put awaited
RecordSettle(o, mo) ==
  /\ pc = "createIPNSRecord"
  /\ IF o.threw
     THEN ExitTry(catchUpdate(o.error), helia, SettledCall(trace, o))
     ELSE IF mo.threw
     THEN ExitTry(catchUpdate(mo.error), helia,
                  Append(SettledCall(trace, o),
                         [call |-> "marshalIPNSRecord", status |-> "threw"]))
     ELSE /\ trace' = SettledCall(trace, o)
                        \o << [call |-> "marshalIPNSRecord", status |-> "ok"],
                              PutCall(keypair[1],
                                      createIPNSRecord(keypair[1], cid,
                                                       sequenceNumber)) >>
          /\ pc' = "put"
          /\ UNCHANGED <<result, ret>>
  /\ UNCHANGED <<op, ipnsPublicKey, privateKeyBase64, ipfsHash, keypair,
                 ipnsName, cid, sequenceNumber, idx, helia, now, backend>>
  /\ UNCHANGED others

SettledPut(tr, o) ==
  [tr EXCEPT ![Len(tr)] =
     [call |-> tr[Len(tr)].call,
      status |-> IF o.threw THEN "threw" ELSE "ok",
      routingKey |-> tr[Len(tr)].routingKey,
      marshaledRecord |-> tr[Len(tr)].marshaledRecord,
      record |-> tr[Len(tr)].record]]

\* putResult with the routing put not awaited: its rejection is lost
putResultNotAwaited(o, name) == [success |-> TRUE, ipnsName |-> name]

\* what the try block returns after the routing put resolved
putResult(o, name) ==
  IF o.threw THEN catchUpdate(o.error)
  ELSE [success |-> TRUE, ipnsName |-> name]

\* helia.routing.put settles: a resolved put has stored the record
PutSettle(o) ==
  /\ pc = "put"
  /\ backend' = IF o.threw THEN backend
                ELSE [backend EXCEPT ![trace[Len(trace)].routingKey[2]] =
                        <<trace[Len(trace)].marshaledRecord>>]
  /\ ExitTry(putResult(o, ipnsName), helia, SettledPut(trace, o))
  /\ UNCHANGED <<op, ipnsPublicKey, privateKeyBase64, ipfsHash, keypair,
                 ipnsName, cid, sequenceNumber, idx, helia, now>>
  /\ UNCHANGED others

\* helia.stop() settles and updateIPNSRecord completes
StopSettle(o) ==
  /\ pc = "stop"
  /\ helia' = IF o.threw THEN "stop failed" ELSE "stopped"
  /\ trace' = SettledCall(trace, o)
  /\ ret' = <<stopCompletion(o, result[1])>>
  /\ pc' = "done"
  /\ UNCHANGED <<op, ipnsPublicKey, privateKeyBase64, ipfsHash, keypair,
                 ipnsName, cid, sequenceNumber, idx, result, now, backend>>
  /\ UNCHANGED others

\* the caller has taken the completion; the engine keeps nothing
Finish ==
  /\ pc = "done"
  /\ pc' = "idle"
  /\ op' = "none"
  /\ Fresh
  /\ cancelled' = FALSE
  /\ UNCHANGED <<now, backend, appVars, concVars, uiVars>>

\* the wall clock advances
Tick ==
  /\ now < MaxClock
  /\ now' = now + 1
  /\ UNCHANGED <<pc, locals, backend>>
  /\ UNCHANGED others

Next ==
  \/ \E id \in Identities : ResolvePubCall(id)
  \/ \E o \in FetchOutcomes : ResolvePubSettle(o)
  \/ \E k \in KeyInputs : ResolvePrivCall(k)
  \/ \E o \in FetchOutcomes : ResolvePrivSettle(o)
  \/ \E h \in Strings(MaxHashLen), k \in KeyInputs : UpdateCall(h, k)
  \/ \E o \in Outcomes : HeliaSettle(o)
  \/ \E o \in Outcomes, mo \in Outcomes : RecordSettle(o, mo)
  \/ \E o \in Outcomes : PutSettle(o)
  \/ \E o \in Outcomes : StopSettle(o)
  \/ Finish
  \/ Tick

Spec == Init /\ [][Next]_vars

(* ---------------------- interleaved invocations ----------------------- *)

\* position and locals of the running invocation
CallState ==
  [pc |-> pc, op |-> op, ipnsPublicKey |-> ipnsPublicKey,
   privateKeyBase64 |-> privateKeyBase64, ipfsHash |-> ipfsHash,
   keypair |-> keypair, ipnsName |-> ipnsName, cid |-> cid,
   sequenceNumber |-> sequenceNumber, idx |-> idx, helia |-> helia,
   result |-> result, ret |-> ret, trace |-> trace]

\* Switch with helia declared at module level instead of inside
\* updateIPNSRecord: the two invocations share one Helia variable
SwitchSharedHelia ==
  /\ parked' = [CallState EXCEPT !.helia = parked.helia]
  /\ pc' = parked.pc
  /\ op' = parked.op
  /\ ipnsPublicKey' = parked.ipnsPublicKey
  /\ privateKeyBase64' = parked.privateKeyBase64
  /\ ipfsHash' = parked.ipfsHash
  /\ keypair' = parked.keypair
  /\ ipnsName' = parked.ipnsName
  /\ cid' = parked.cid
  /\ sequenceNumber' = parked.sequenceNumber
  /\ idx' = parked.idx
  /\ helia' = helia
  /\ result' = parked.result
  /\ ret' = parked.ret
  /\ trace' = parked.trace
  /\ cur' = 3 - cur
  /\ UNCHANGED <<now, backend, appVars, cancelled, uiVars>>

\* the running invocation is suspended at an await and the other one
\* continues: every invocation of an async function has its own parameters
\* and locals, and the module has no variable that outlives a call
Switch ==
  /\ parked' = CallState
  /\ pc' = parked.pc
  /\ op' = parked.op
  /\ ipnsPublicKey' = parked.ipnsPublicKey
  /\ privateKeyBase64' = parked.privateKeyBase64
  /\ ipfsHash' = parked.ipfsHash
  /\ keypair' = parked.keypair
  /\ ipnsName' = parked.ipnsName
  /\ cid' = parked.cid
  /\ sequenceNumber' = parked.sequenceNumber
  /\ idx' = parked.idx
  /\ helia' = parked.helia
  /\ result' = parked.result
  /\ ret' = parked.ret
  /\ trace' = parked.trace
  /\ cur' = 3 - cur
  /\ UNCHANGED <<now, backend, appVars, cancelled, uiVars>>

\* the inputs of the specifications that run the engine next to something
\* else: one answer of each kind
SmallFetchOutcomes ==
  { [kind |-> "reject", error |-> Err("collaborator failed")],
    [kind |-> "response", status |-> 200, roots |-> << <<"b", "a">> >>],
    [kind |-> "response", status |-> 404, roots |-> <<>>] }

SmallOutcomes == {Ok, Throw(Err("collaborator failed"))}

SmallHashes == { <<"b", "a">>, <<"a">> }

SmallKeys == {"edA", "edB", "rsa"}

EngineNext ==
  \/ \E id \in Identities : ResolvePubCall(id)
  \/ \E o \in SmallFetchOutcomes : ResolvePubSettle(o)
  \/ \E k \in SmallKeys : ResolvePrivCall(k)
  \/ \E o \in SmallFetchOutcomes : ResolvePrivSettle(o)
  \/ \E h \in SmallHashes, k \in SmallKeys : UpdateCall(h, k)
  \/ \E o \in SmallOutcomes : HeliaSettle(o)
  \/ \E o \in SmallOutcomes, mo \in SmallOutcomes : RecordSettle(o, mo)
  \/ \E o \in SmallOutcomes : PutSettle(o)
  \/ \E o \in SmallOutcomes : StopSettle(o)
  \/ Finish
  \/ Tick

\* the engine when every fetch it awaits settles: a pending fetch is
\* answered or rejected by the network in the end, so the continuation of
\* the await is run.  One answer of each kind is enough here: which
\* strategy comes next depends on the kind of the answer only.
SpecLive ==
  /\ Init
  /\ [][EngineNext]_vars
  /\ WF_vars(\E o \in SmallFetchOutcomes : ResolvePubSettle(o))
  /\ WF_vars(\E o \in SmallFetchOutcomes : ResolvePrivSettle(o))

NextConc == EngineNext \/ Switch

\* two invocations of the engine, interleaved at their awaits
SpecConc == Init /\ [][NextConc]_vars

(* ------------------- gateways over a stub backend --------------------- *)

\* the public keys whose name is the given identity
KeysNamed(name) ==
  {p \in PubKeys :
     getIPNSNameFromKeypair([type |-> "Ed25519", pub |-> p]) = name}

\* the answer of a gateway that resolves names from the routing backend:
\* 200 with the value of the record stored for the name in X-Ipfs-Roots,
\* 404 when no record is stored for it
StubGateway(name) ==
  IF \E p \in KeysNamed(name) : backend[p] # <<>>
  THEN LET p == CHOOSE q \in KeysNamed(name) : backend[q] # <<>>
       IN [kind |-> "response", status |-> 200,
           roots |-> << backend[p][1][1] >>]
  ELSE [kind |-> "response", status |-> 404, roots |-> <<>>]

\* the probe of a resolve call is answered by the stub gateway
StubPubSettle == ResolvePubSettle(StubGateway(ipnsPublicKey))

StubPrivSettle == ResolvePrivSettle(StubGateway(ipnsName))

NextStub ==
  \/ \E id \in Identities : ResolvePubCall(id)
  \/ StubPubSettle
  \/ \E k \in SmallKeys : ResolvePrivCall(k)
  \/ StubPrivSettle
  \/ \E h \in Strings(MaxHashLen), k \in SmallKeys : UpdateCall(h, k)
  \/ \E o \in SmallOutcomes : HeliaSettle(o)
  \/ \E o \in SmallOutcomes, mo \in SmallOutcomes : RecordSettle(o, mo)
  \/ \E o \in SmallOutcomes : PutSettle(o)
  \/ \E o \in SmallOutcomes : StopSettle(o)
  \/ Finish
  \/ Tick

\* the engine with both gateways answering from the records it has put
SpecStub == Init /\ [][NextStub]_vars

(* --------------------------- ConfigManager ---------------------------- *)

\* the configuration files the upload form hands over: parsed JSON that
\* passed validateConfigStructure, as its __env section (absent: <<>>) and
\* its environments in key order; an absent ipnsPrivateKey is ""
Configs ==
  { [env |-> << [quickNodeApiKey |-> "q"] >>,
     rest |-> << [name |-> "prod", ipnsPublicKey |-> "k51A",
                  ipnsPrivateKey |-> "edA"] >>],
    [env |-> << [quickNodeApiKey |-> "q"] >>,
     rest |-> << [name |-> "dev", ipnsPublicKey |-> "k51B",
                  ipnsPrivateKey |-> ""],
                 [name |-> "prod", ipnsPublicKey |-> "k51A",
                  ipnsPrivateKey |-> "edA"] >>],
    [env |-> <<>>,
     rest |-> << [name |-> "dev", ipnsPublicKey |-> "k51B",
                  ipnsPrivateKey |-> ""] >>] }

\* ConfigManager renders ConfigTabs, not the upload form
TabsShown == configStructure # <<>> /\ configEnvs # <<>>

\* the environments of the loaded configuration
Environments ==
  IF configStructure = <<>> THEN {}
  ELSE {configStructure[1][i] : i \in 1..Len(configStructure[1])}

\* the environment of a name in the loaded configuration
EnvironmentNamed(n) == {e \in Environments : e.name = n}

\* the state handleConfigLoaded sets
ConfigLoaded(config) ==
  /\ configEnvs' = config.env
  /\ configStructure' = <<config.rest>>
  /\ fetchedConfigs' = <<>>
  /\ currentIPFSHashes' = <<>>
  /\ error' = <<>>
  /\ activeTab' = IF config.rest # <<>> /\ config.rest[1].name # ""
                  THEN config.rest[1].name
                  ELSE activeTab

\* the upload form hands a configuration to ConfigManager
handleConfigLoaded(config) ==
  /\ ~TabsShown
  /\ ConfigLoaded(config)
  /\ UNCHANGED <<pc, locals, now, backend, cancelled, concVars, uiVars>>

\* the user resets to the upload form, which unmounts the tabs with their
\* state.  Of ConfigManager only React state is set: the
\* handler holds no reference to a running call of the engine, and the
\* engine's functions take no abort signal.  cancelled records that the
\* application has abandoned a call that was still running.
handleReset ==
  /\ TabsShown
  /\ configStructure' = <<>>
  /\ fetchedConfigs' = <<>>
  /\ currentIPFSHashes' = <<>>
  /\ error' = <<>>
  /\ activeTab' = ""
  /\ cancelled' = (cancelled \/ pc \notin {"idle", "done"})
  /\ fetches' = [n \in EnvNames |->
                   IF fetches[n].pc = "idle" THEN fetches[n]
                   ELSE [fetches[n] EXCEPT !.stale = TRUE]]
  /\ rawJsonValue' = [n \in EnvNames |-> [kind |-> "blank"]]
  /\ uploadResult' = [n \in EnvNames |-> <<>>]
  /\ UNCHANGED <<configEnvs, loading, pc, locals, now, backend, concVars,
                 formVars, uploadVars, publishVars>>

\* the calls of the engine ConfigTabs makes for an environment: handleFetch
\* resolves by the private key when the environment has one and by the
\* public key otherwise, and saving publishes under the private key
EngineCalls ==
  /\ TabsShown
  /\ \E e \in Environments :
       \/ /\ e.ipnsPrivateKey # ""
          /\ ResolvePrivCall(e.ipnsPrivateKey)
       \/ /\ e.ipnsPrivateKey = ""
          /\ ResolvePubCall(e.ipnsPublicKey)
       \/ /\ e.ipnsPrivateKey # ""
          /\ \E h \in SmallHashes : UpdateCall(h, e.ipnsPrivateKey)

\* a call of the engine goes on
EngineSteps ==
  \/ \E o \in SmallFetchOutcomes : ResolvePubSettle(o)
  \/ \E o \in SmallFetchOutcomes : ResolvePrivSettle(o)
  \/ \E o \in SmallOutcomes : HeliaSettle(o)
  \/ \E o \in SmallOutcomes, mo \in SmallOutcomes : RecordSettle(o, mo)
  \/ \E o \in SmallOutcomes : PutSettle(o)
  \/ \E o \in SmallOutcomes : StopSettle(o)
  \/ Finish
  \/ Tick

NextApp ==
  \/ EngineCalls
  \/ EngineSteps
  \/ \E config \in Configs : handleConfigLoaded(config)
  \/ handleReset

\* ConfigManager with the engine calls it makes
SpecApp == Init /\ [][NextApp]_vars

(* ---------------------------- ConfigUpload ---------------------------- *)

\* the values of the top-level entries of a submitted JSON object: null, a
\* string, and objects with some of the properties the code reads;
\* has is the set of the object's own properties
JNull == [kind |-> "null"]

JString == [kind |-> "string"]

JObject(has, pub, priv) ==
  [kind |-> "object", has |-> has, ipnsPublicKey |-> pub,
   ipnsPrivateKey |-> priv]

EntryValues ==
  { JNull, JString,
    JObject({}, "", ""),
    JObject({"quickNodeApiKey"}, "", ""),
    JObject({"ipnsPublicKey"}, "k51B", ""),
    JObject({"ipnsPublicKey"}, "", ""),
    JObject({"ipnsPublicKey", "ipnsPrivateKey"}, "k51A", "edA"),
    JObject({"ipnsPrivateKey"}, "", "edA") }

EntryNames == {"__env", "_env", "dev", "prod"}

\* Object.entries of the JSON objects: up to n entries with distinct names
RECURSIVE EntryLists(_)
EntryLists(n) ==
  IF n = 0 THEN { <<>> }
  ELSE LET shorter == EntryLists(n - 1) IN
       shorter \cup
         { Append(es, [name |-> nm, value |-> v]) :
             es \in {l \in shorter : Len(l) = n - 1},
             nm \in EntryNames, v \in EntryValues }

DistinctNames(es) ==
  \A i, j \in 1..Len(es) : es[i].name = es[j].name => i = j

\* what JSON.parse returns: null, a number, or an object
ParsedValues ==
  { [kind |-> "null"], [kind |-> "number"] }
    \cup { [kind |-> "object", entries |-> es] :
             es \in {l \in EntryLists(MaxEntries) : DistinctNames(l)} }

\* HasIpnsPublicKey testing the property's value instead of its presence
HasIpnsPublicKeyTruthy(v) == v.ipnsPublicKey # ""

\* 'ipnsPublicKey' in envConfig, for an envConfig that is an object
HasIpnsPublicKey(v) == "ipnsPublicKey" \in v.has

\* the for loop of validateConfigStructure from entry i on
RECURSIVE validateEntries(_, _, _)
validateEntries(parsedValue, es, i) ==
  IF i > Len(es)
  THEN [valid |-> TRUE, config |-> parsedValue]
  ELSE IF es[i].name = "__env"
  THEN validateEntries(parsedValue, es, i + 1)
  ELSE IF es[i].value.kind # "object" \/ ~HasIpnsPublicKey(es[i].value)
  THEN [valid |-> FALSE,
        error |-> [message |-> "missing ipnsPublicKey",
                   envName |-> es[i].name]]
  ELSE validateEntries(parsedValue, es, i + 1)

validateConfigStructure(parsedValue) ==
  IF parsedValue.kind # "object"
  THEN [valid |-> FALSE, error |-> [message |-> "Invalid JSON structure"]]
  ELSE validateEntries(parsedValue, parsedValue.entries, 1)

\* JavaScript truthiness of an entry value (the string is not empty)
TruthyValue(v) == v.kind # "null"

\* the entries of a JSON object under a name
EntriesNamed(es, nm) == {i \in 1..Len(es) : es[i].name = nm}

\* the entries other than __env, as environments
RECURSIVE WithoutEnv(_)
WithoutEnv(es) ==
  IF es = <<>> THEN <<>>
  ELSE IF es[1].name = "__env" THEN WithoutEnv(Tail(es))
  ELSE << [name |-> es[1].name,
           ipnsPublicKey |-> es[1].value.ipnsPublicKey,
           ipnsPrivateKey |-> es[1].value.ipnsPrivateKey] >>
         \o WithoutEnv(Tail(es))

\* the validated JSON object as handleConfigLoaded reads it: config.__env
\* and the rest
AsConfig(parsedValue) ==
  LET es == parsedValue.entries
      at == EntriesNamed(es, "__env")
  IN [env |-> IF at # {} /\ TruthyValue(es[CHOOSE i \in at : TRUE].value)
              THEN << es[CHOOSE i \in at : TRUE].value >>
              ELSE <<>>,
      rest |-> WithoutEnv(es)]

\* what the user submits: blank text, text that is not JSON, or JSON
FormInputs ==
  { [kind |-> "blank"], [kind |-> "malformed"] }
    \cup { [kind |-> "json", value |-> v] : v \in ParsedValues }

\* validateAndSetConfig, with the catch of the handler that called it:
\* failText is that handler's prefix of the message
validateAndSetConfig(parsedValue, failText) ==
  LET v == validateConfigStructure(parsedValue) IN
  /\ parsed' = <<parsedValue>>
  /\ validation' = <<v>>
  /\ IF v.valid
     THEN /\ ConfigLoaded(AsConfig(parsedValue))
          /\ rawJsonInput' = [kind |-> "blank"]
          /\ formError' = <<>>
     ELSE /\ formError' = << [message |-> failText, cause |-> v.error] >>
          /\ UNCHANGED <<appVars, rawJsonInput>>

\* JSON.parse threw
parseFailed(failText) ==
  /\ formError' = << [message |-> failText,
                      cause |-> [message |-> "SyntaxError"]] >>
  /\ parsed' = <<>>
  /\ validation' = <<>>
  /\ UNCHANGED <<appVars, rawJsonInput>>

\* the user clicks "Load from JSON"
handleRawJsonSubmit ==
  /\ ~TabsShown
  /\ CASE rawJsonInput.kind = "blank" ->
            /\ formError' = << [message |-> "Please enter JSON configuration"] >>
            /\ parsed' = <<>>
            /\ validation' = <<>>
            /\ UNCHANGED <<appVars, rawJsonInput>>
       [] rawJsonInput.kind = "malformed" -> parseFailed("Failed to parse JSON")
       [] OTHER -> validateAndSetConfig(rawJsonInput.value,
                                        "Failed to parse JSON")
  /\ UNCHANGED <<file, pc, locals, now, backend, cancelled, concVars,
                 uploadVars, publishVars, fetchVars, tabVars>>

\* the user has picked a file and its text has been read
handleFileUpload ==
  /\ ~TabsShown
  /\ file # <<>>
  /\ IF file[1].kind # "json"
     THEN parseFailed("Failed to parse file")
     ELSE validateAndSetConfig(file[1].value, "Failed to parse file")
  /\ file' = <<>>
  /\ UNCHANGED <<pc, locals, now, backend, cancelled, concVars,
                 uploadVars, publishVars, fetchVars, tabVars>>

\* the upload form with a text typed into the textarea or a file at hand
InitForm ==
  /\ pc = "idle"
  /\ op = "none"
  /\ ipnsPublicKey = ""
  /\ privateKeyBase64 = ""
  /\ ipfsHash = <<>>
  /\ keypair = <<>>
  /\ ipnsName = ""
  /\ cid = <<>>
  /\ sequenceNumber = 0
  /\ idx = 0
  /\ helia = "undefined"
  /\ result = <<>>
  /\ ret = <<>>
  /\ trace = <<>>
  /\ now = 0
  /\ backend = [p \in PubKeys |-> <<>>]
  /\ configEnvs = <<>>
  /\ configStructure = <<>>
  /\ fetchedConfigs = <<>>
  /\ currentIPFSHashes = <<>>
  /\ error = <<>>
  /\ activeTab = ""
  /\ cancelled = FALSE
  /\ parked = IdleCall
  /\ cur = 1
  /\ parsed = <<>>
  /\ validation = <<>>
  /\ formError = <<>>
  /\ \/ rawJsonInput \in FormInputs /\ file = <<>>
     \/ rawJsonInput = [kind |-> "blank"] /\ file \in {<<i>> : i \in FormInputs}
  /\ upc = "idle"
  /\ uargs = <<>>
  /\ existingObject = <<>>
  /\ utrace = <<>>
  /\ uret = <<>>
  /\ pins = [e \in EnvNames |-> <<>>]
  /\ pinnedBefore = [e \in EnvNames |-> <<>>]
  /\ wpc = "idle"
  /\ wargs = <<>>
  /\ wtrace = <<>>
  /\ wret = <<>>
  /\ loading = <<>>
  /\ fetches = [n \in EnvNames |-> NoFetch]
  /\ rawJsonValue = [n \in EnvNames |-> [kind |-> "blank"]]
  /\ uploadResult = [n \in EnvNames |-> <<>>]

NextForm ==
  \/ handleRawJsonSubmit
  \/ handleFileUpload
  \/ handleReset

\* the upload form and ConfigManager
SpecForm == InitForm /\ [][NextForm]_vars

(* ---------------------- ConfigManager.handleFetch --------------------- *)

\* a collaborator resolves to a result or rejects
Resolves(r) == [threw |-> FALSE, result |-> r]

\* obj[name] of a JavaScript object kept as its entries in insertion
\* order: <<>> for undefined, <<value>> otherwise
Prop(obj, name) ==
  LET S == {i \in 1..Len(obj) : obj[i].name = name} IN
  IF S = {} THEN <<>> ELSE << obj[CHOOSE i \in S : TRUE].value >>

\* { [name]: value }, the entries of prev dropped
SpreadWithoutPrev(prev, name, value) ==
  << [name |-> name, value |-> value] >>

\* { ...prev, [name]: value }
SpreadWith(prev, name, value) ==
  IF Prop(prev, name) = <<>>
  THEN Append(prev, [name |-> name, value |-> value])
  ELSE [i \in 1..Len(prev) |->
          IF prev[i].name = name THEN [name |-> name, value |-> value]
          ELSE prev[i]]

\* what a resolve function of the engine returns to handleFetch
ResolveResults ==
  { [success |-> TRUE, ipfsHash |-> <<"b", "a">>],
    [success |-> TRUE, ipfsHash |-> <<>>],
    [success |-> FALSE, ipfsHash |-> <<>>] }

\* the bodies the gateway answers with: not JSON, null, or an object
Bodies ==
  { [kind |-> "invalid"], JNull,
    [kind |-> "object", entries |-> <<>>],
    [kind |-> "object", entries |-> << [name |-> "a", value |-> "1"] >>] }

\* how the request of fetchFromIPNS settles: the X-Ipfs-Roots header is
\* absent, blank or a hash, and the final URL holds /ipfs/<hash> or not
ContentResponses ==
  { [kind |-> "reject"], [kind |-> "notok"] }
    \cup { [kind |-> "ok", roots |-> r, url |-> u, body |-> b] :
             r \in {<<>>, << <<" ">> >>, << <<"b", "b">> >>},
             u \in {<<>>, <<"b", "c">>},
             b \in Bodies }

\* fetchFromIPNS: the result for a response, every failure caught
fetchFromIPNS(response) ==
  IF response.kind = "reject"
  THEN [success |-> FALSE, data |-> <<>>, ipfsHash |-> <<>>,
        error |-> "fetch failed"]
  ELSE IF response.kind = "notok"
  THEN [success |-> FALSE, data |-> <<>>, ipfsHash |-> <<>>,
        error |-> "Failed to fetch: status"]
  ELSE LET fromHeader == IF response.roots # <<>>
                         THEN trim(response.roots[1]) ELSE <<>>
           hash == IF fromHeader # <<>> THEN fromHeader ELSE response.url
       IN  IF response.body.kind = "invalid"
           THEN [success |-> FALSE, data |-> <<>>, ipfsHash |-> <<>>,
                 error |-> "Unexpected token"]
           ELSE [success |-> TRUE, data |-> <<response.body>>,
                 ipfsHash |-> hash, error |-> "undefined"]

\* Object.entries(data).map(([key, value]) => ({ key, value }))
AsKeyValues(data) ==
  [i \in 1..Len(data.entries) |->
     [key |-> data.entries[i].name, value |-> data.entries[i].value]]

\* handleFetch storing the hash of the gateway's headers whatever the
\* environment
HeaderHashStoredAlways(fetchResult, privateKey) ==
  fetchResult.ipfsHash # <<>>

\* result.ipfsHash && !configStructure?.[environmentName]?.ipnsPrivateKey
HeaderHashStored(fetchResult, privateKey) ==
  fetchResult.ipfsHash # <<>> /\ privateKey = ""

\* handleFetch leaving the loading flag as it is
setLoadingKept(prev, environmentName) == prev

\* setLoading(prev => ({ ...prev, [environmentName]: false }))
setLoadingFalse(prev, environmentName) ==
  SpreadWith(prev, environmentName, FALSE)

\* the user presses Fetch on the tab of an environment: handleFetch
\* (environmentName, ipnsPublicKey) sets the loading flag, clears the error
\* and calls the resolve function for the configuration it was rendered
\* with.  The button is disabled while the environment is loading.
handleFetch(e) ==
  /\ TabsShown
  /\ Prop(loading, e.name) # <<TRUE>>
  /\ fetches[e.name].pc = "idle"
  /\ loading' = SpreadWith(loading, e.name, TRUE)
  /\ error' = <<>>
  /\ fetches' = [fetches EXCEPT ![e.name] =
       [pc |-> "resolve", ipnsKey |-> e.ipnsPublicKey,
        ipnsPrivateKey |-> e.ipnsPrivateKey, stale |-> FALSE,
        calls |-> << IF e.ipnsPrivateKey # ""
                     THEN [call |-> "resolveIPNSFromPrivateKey",
                           arg |-> e.ipnsPrivateKey]
                     ELSE [call |-> "resolveIPNSFromPublicKey",
                           arg |-> e.ipnsPublicKey] >>]]
  /\ UNCHANGED <<configEnvs, configStructure, fetchedConfigs,
                 currentIPFSHashes, activeTab, pc, locals, now, backend,
                 cancelled, concVars, formVars, uploadVars, publishVars, tabVars>>

\* the import or the resolve function settles: a resolved hash becomes the
\* current hash of the environment, a failure is only logged, and the
\* content is fetched
fetchResolveSettle(n, o) ==
  /\ fetches[n].pc = "resolve"
  /\ currentIPFSHashes' =
       IF ~o.threw /\ o.result.success /\ o.result.ipfsHash # <<>>
       THEN SpreadWith(currentIPFSHashes, n, o.result.ipfsHash)
       ELSE currentIPFSHashes
  /\ fetches' = [fetches EXCEPT ![n].pc = "fetch",
                                ![n].calls = Append(@,
                                   [call |-> "fetchFromIPNS",
                                    arg |-> fetches[n].ipnsKey])]
  /\ UNCHANGED <<configEnvs, configStructure, fetchedConfigs, error,
                 activeTab, loading, pc, locals, now, backend, cancelled,
                 concVars, formVars, uploadVars, publishVars, tabVars>>

\* fetchFromIPNS settles: the content becomes the environment's key-value
\* list, or the error is shown, and the loading flag is cleared
fetchContentSettle(n, response) ==
  /\ fetches[n].pc = "fetch"
  /\ LET fetchResult == fetchFromIPNS(response) IN
     IF fetchResult.success /\ fetchResult.data # <<>>
          /\ TruthyValue(fetchResult.data[1])
     THEN /\ fetchedConfigs' =
               SpreadWith(fetchedConfigs, n, AsKeyValues(fetchResult.data[1]))
          /\ currentIPFSHashes' =
               IF HeaderHashStored(fetchResult, fetches[n].ipnsPrivateKey)
               THEN SpreadWith(currentIPFSHashes, n, fetchResult.ipfsHash)
               ELSE currentIPFSHashes
          /\ error' = error
     ELSE /\ error' = << <<"Failed to fetch ", n, ": ", fetchResult.error>> >>
          /\ UNCHANGED <<fetchedConfigs, currentIPFSHashes>>
  /\ loading' = setLoadingFalse(loading, n)
  /\ fetches' = [fetches EXCEPT ![n] = NoFetch]
  /\ UNCHANGED <<configEnvs, configStructure, activeTab, pc, locals, now,
                 backend, cancelled, concVars, formVars, uploadVars,
                 publishVars, tabVars>>

NextFetch ==
  \/ \E config \in Configs : handleConfigLoaded(config)
  \/ handleReset
  \/ \E e \in Environments : handleFetch(e)
  \/ \E n \in EnvNames, r \in ResolveResults : fetchResolveSettle(n, Resolves(r))
  \/ \E n \in EnvNames, e \in Thrown : fetchResolveSettle(n, Throw(e))
  \/ \E n \in EnvNames, response \in ContentResponses :
       fetchContentSettle(n, response)

\* ConfigManager fetching the content of its environments
SpecFetch == Init /\ [][NextFetch]_vars

\* the same, every call handleFetch awaits settling at some time: the
\* resolve functions and fetchFromIPNS return a result for every failure
SpecFetchLive ==
  /\ Init
  /\ [][NextFetch]_vars
  /\ \A n \in EnvNames :
       /\ WF_vars(\/ \E r \in ResolveResults : fetchResolveSettle(n, Resolves(r))
                  \/ \E e \in Thrown : fetchResolveSettle(n, Throw(e)))
       /\ WF_vars(\E response \in ContentResponses :
                    fetchContentSettle(n, response))

(* --------------------------- EnvironmentTab --------------------------- *)

\* the keys and the values of the JSON a user edits
TabKeys == {"a", "b", "0"}

TabValues == {"1", "2"}

\* own property names in the order of Object.keys and Object.entries:
\* integer-like names first, then the others as inserted
InKeyOrder(es) == \A j \in 2..Len(es) : es[j].name # "0"

\* the JSON objects of up to n entries, as JSON.parse gives them
RECURSIVE EntrySeqs(_)
EntrySeqs(n) ==
  IF n = 0 THEN { <<>> }
  ELSE LET S == EntrySeqs(n - 1) IN
       S \cup { Append(es, [name |-> k, value |-> v]) :
                  es \in S, k \in TabKeys, v \in TabValues }

ObjectsOf(n) ==
  { [kind |-> "object", entries |-> es] :
      es \in { x \in EntrySeqs(n) :
                 /\ \A i, j \in 1..Len(x) : x[i].name = x[j].name => i = j
                 /\ InKeyOrder(x) } }

\* what the textarea of a tab may hold: nothing, text that is not JSON,
\* null, or an object
TabInputs ==
  { [kind |-> "blank"], [kind |-> "invalid"],
    [kind |-> "json", value |-> JNull] }
    \cup { [kind |-> "json", value |-> o] : o \in ObjectsOf(MaxEntries) }

\* the configuration the tabs are shown for
TabConfig ==
  [env |-> << [quickNodeApiKey |-> "q"] >>,
   rest |-> << [name |-> "dev", ipnsPublicKey |-> "k51B",
                ipnsPrivateKey |-> ""],
               [name |-> "prod", ipnsPublicKey |-> "k51A",
                ipnsPrivateKey |-> "edA"] >>]

\* Object.keys of an array: its indices as strings
IndexKey(i) ==
  CASE i = 1 -> "0" [] i = 2 -> "1" [] i = 3 -> "2" [] i = 4 -> "3"
    [] i = 5 -> "4" [] i = 6 -> "5" [] OTHER -> "6"

\* ConfigManager.handleRemoveKey on the list of the environment
handleRemoveKey(list, key) == SelectSeq(list, LAMBDA item : item.key # key)

\* Object.keys(fetchedConfig).forEach(k => onRemoveKey(environmentName, k))
RECURSIVE removeByObjectKeys(_, _, _)
removeByObjectKeys(list, fetchedConfig, i) ==
  IF i > Len(fetchedConfig) THEN list
  ELSE removeByObjectKeys(handleRemoveKey(list, IndexKey(i)),
                          fetchedConfig, i + 1)

\* ConfigManager.handleAddKey on the list of the environment
handleAddKey(list, key, value) ==
  IF key \in {"", " "} THEN list
  ELSE Append(list, [key |-> key, value |-> value])

\* Object.entries(parsed).forEach(([k, v]) => onAddKey(environmentName, k,
\* String(v)))
RECURSIVE addEntries(_, _, _)
addEntries(list, es, i) ==
  IF i > Len(es) THEN list
  ELSE addEntries(handleAddKey(list, es[i].name, es[i].value), es, i + 1)

\* the user saves the raw JSON of a tab: the text is parsed, onRemoveKey is
\* called for the keys of the environment's list, onAddKey for the entries
\* of the JSON; text that is not JSON is caught at once, and null after
\* the removals (Object.entries throws)
handleSaveRawJson(n) ==
  /\ TabsShown
  /\ EnvironmentNamed(n) # {}
  /\ LET fetchedConfig == Prop(fetchedConfigs, n) IN
     IF rawJsonValue[n].kind # "json"
     THEN UNCHANGED <<uploadResult, fetchedConfigs>>
     ELSE LET cleared == IF fetchedConfig # <<>>
                         THEN << removeByObjectKeys(fetchedConfig[1],
                                                    fetchedConfig[1], 1) >>
                         ELSE <<>>
          IN  IF rawJsonValue[n].value.kind = "null"
              THEN /\ uploadResult' = uploadResult
                   /\ fetchedConfigs' =
                        IF cleared = <<>> THEN fetchedConfigs
                        ELSE SpreadWith(fetchedConfigs, n, cleared[1])
              ELSE /\ uploadResult' =
                        [uploadResult EXCEPT ![n] = <<"Changes saved locally">>]
                   /\ fetchedConfigs' =
                        IF cleared = <<>>
                             /\ rawJsonValue[n].value.entries = <<>>
                        THEN fetchedConfigs
                        ELSE SpreadWith(fetchedConfigs, n,
                               addEntries(IF cleared = <<>> THEN <<>>
                                          ELSE cleared[1],
                                          rawJsonValue[n].value.entries, 1))
  /\ \A m \in EnvNames :
       Prop(fetchedConfigs', m) # <<>> =>
         Len(Prop(fetchedConfigs', m)[1]) <= 2 * MaxEntries
  /\ UNCHANGED <<configEnvs, configStructure, currentIPFSHashes, error,
                 activeTab, rawJsonValue, pc, locals, now, backend, cancelled,
                 concVars, formVars, uploadVars, publishVars, fetchVars>>

\* the tabs of a loaded configuration, content fetched or not for the
\* environment, with a text in its textarea
InitEdit ==
  /\ pc = "idle"
  /\ op = "none"
  /\ ipnsPublicKey = ""
  /\ privateKeyBase64 = ""
  /\ ipfsHash = <<>>
  /\ keypair = <<>>
  /\ ipnsName = ""
  /\ cid = <<>>
  /\ sequenceNumber = 0
  /\ idx = 0
  /\ helia = "undefined"
  /\ result = <<>>
  /\ ret = <<>>
  /\ trace = <<>>
  /\ now = 0
  /\ backend = [p \in PubKeys |-> <<>>]
  /\ configEnvs = TabConfig.env
  /\ configStructure = <<TabConfig.rest>>
  /\ \/ fetchedConfigs = <<>>
     \/ \E o \in ObjectsOf(MaxEntries) :
          fetchedConfigs = << [name |-> "dev", value |-> AsKeyValues(o)] >>
  /\ currentIPFSHashes = <<>>
  /\ error = <<>>
  /\ activeTab = "dev"
  /\ cancelled = FALSE
  /\ parked = IdleCall
  /\ cur = 1
  /\ parsed = <<>>
  /\ validation = <<>>
  /\ formError = <<>>
  /\ rawJsonInput = [kind |-> "blank"]
  /\ file = <<>>
  /\ upc = "idle"
  /\ uargs = <<>>
  /\ existingObject = <<>>
  /\ utrace = <<>>
  /\ uret = <<>>
  /\ pins = [e \in EnvNames |-> <<>>]
  /\ pinnedBefore = [e \in EnvNames |-> <<>>]
  /\ wpc = "idle"
  /\ wargs = <<>>
  /\ wtrace = <<>>
  /\ wret = <<>>
  /\ loading = <<>>
  /\ fetches = [n \in EnvNames |-> NoFetch]
  /\ \E text \in TabInputs :
       rawJsonValue = [n \in EnvNames |->
                         IF n = "dev" THEN text ELSE [kind |-> "blank"]]
  /\ uploadResult = [n \in EnvNames |-> <<>>]

NextEdit == \E n \in EnvNames : handleSaveRawJson(n)

\* EnvironmentTab saving the raw JSON
SpecEdit == InitEdit /\ [][NextEdit]_vars

(* ---------------------------- ipfsUploader ---------------------------- *)

\* the quickNodeApiKey arguments: none ("" for undefined or empty) or a key
ApiKeys == {"", "q"}

\* the content hashes the pinning service gives to uploaded content
NewCids == { <<"b", "a">>, <<"b", "b">> }

\* `env-${environmentName}.json`
FileName(environmentName) == <<"env-", environmentName, ".json">>

\* getQuickNodeApiKey accepting a missing key
getQuickNodeApiKeyUnchecked(apiKey) == [threw |-> FALSE, key |-> apiKey]

\* getQuickNodeApiKey: throws when there is no key
getQuickNodeApiKey(apiKey) ==
  IF apiKey = ""
  THEN Throw(Err("QuickNode API key is required"))
  ELSE [threw |-> FALSE, key |-> apiKey]

\* how a request to the pinning service settles: the fetch rejects, the
\* response is not ok, or it is ok; an ok response to the listing is the
\* first page, which holds the pinned objects or misses them, and an ok
\* response to the upload carries a content hash or none
ServiceOutcomes ==
  { [kind |-> "reject"], [kind |-> "notok"],
    [kind |-> "ok", page |-> "all", cid |-> <<>>],
    [kind |-> "ok", page |-> "other", cid |-> <<>>] }
    \cup { [kind |-> "ok", page |-> "all", cid |-> c] : c \in NewCids }

Request(r, target) == [request |-> r, target |-> target, status |-> "pending"]

\* the last request of the trace settles
SettledRequest(tr, o) ==
  [tr EXCEPT ![Len(tr)] =
     [request |-> tr[Len(tr)].request, target |-> tr[Len(tr)].target,
      status |-> o.kind]]

\* findPinnedObjectByName over getAllPinnedObjects: the object of that name
\* on the first page, null with an error when the listing failed
findPinnedObjectByName(environmentName, o) ==
  IF o.kind # "ok"
  THEN [object |-> <<>>, error |-> <<"Failed to get pinned objects">>]
  ELSE IF o.page = "all" /\ pins[environmentName] # <<>>
  THEN [object |-> pins[environmentName], error |-> <<>>]
  ELSE [object |-> <<>>, error |-> <<>>]

\* deletePinnedObject reporting success whatever the service answered
deletePinnedObjectAlwaysOk(o) == [success |-> TRUE]

\* deletePinnedObject: success exactly for an ok response
deletePinnedObject(o) ==
  IF o.kind = "ok" THEN [success |-> TRUE]
  ELSE [success |-> FALSE, error |-> "Failed to delete pinned object"]

\* the catch block of uploadConfigToIPFS
catchUpload(e) ==
  [success |-> FALSE,
   error |-> IF e.isError THEN e.message ELSE "Unknown upload error"]

\* the request that puts the new content
PutObject(environmentName) == Request("POST put-object", FileName(environmentName))

\* uploadConfigToIPFS(config, environmentName, quickNodeApiKey) is called:
\* without a key it returns the failure at once, otherwise it asks the
\* service for its pinned objects
uploadConfigToIPFS(environmentName, quickNodeApiKey) ==
  /\ upc = "idle"
  /\ uargs' = << [environmentName |-> environmentName,
                  quickNodeApiKey |-> quickNodeApiKey] >>
  /\ pinnedBefore' = pins
  /\ existingObject' = <<>>
  /\ LET k == getQuickNodeApiKey(quickNodeApiKey) IN
     IF k.threw
     THEN /\ uret' = <<catchUpload(k.error)>>
          /\ utrace' = <<>>
          /\ upc' = "done"
     ELSE /\ uret' = <<>>
          /\ utrace' = << Request("GET pinning", "page 1") >>
          /\ upc' = "find"
  /\ UNCHANGED <<pins, pc, locals, now, backend, appVars, cancelled, concVars,
                 formVars, publishVars, fetchVars, tabVars>>

\* the listing settles: an object of the file's name is deleted first,
\* otherwise the new content is put
findSettle(o) ==
  /\ upc = "find"
  /\ LET found == findPinnedObjectByName(uargs[1].environmentName, o) IN
     /\ existingObject' = found.object
     /\ IF found.object # <<>>
        THEN /\ utrace' = Append(SettledRequest(utrace, o),
                                 Request("DELETE pinning", found.object[1].requestId))
             /\ upc' = "delete"
        ELSE /\ utrace' = Append(SettledRequest(utrace, o),
                                 PutObject(uargs[1].environmentName))
             /\ upc' = "upload"
  /\ UNCHANGED <<uargs, uret, pins, pinnedBefore, pc, locals, now, backend,
                 appVars, cancelled, concVars, formVars, publishVars, fetchVars, tabVars>>

\* the deletion settles: the service has unpinned the object when it
\* answers ok; a failed deletion ends the call
deleteSettle(o) ==
  /\ upc = "delete"
  /\ pins' = IF o.kind = "ok"
             THEN [pins EXCEPT ![uargs[1].environmentName] = <<>>]
             ELSE pins
  /\ IF deletePinnedObject(o).success
     THEN /\ utrace' = Append(SettledRequest(utrace, o),
                              PutObject(uargs[1].environmentName))
          /\ upc' = "upload"
          /\ uret' = uret
     ELSE /\ utrace' = SettledRequest(utrace, o)
          /\ upc' = "done"
          /\ uret' = <<catchUpload(Err("Failed to delete existing file"))>>
  /\ UNCHANGED <<uargs, existingObject, pinnedBefore, pc, locals, now, backend,
                 appVars, cancelled, concVars, formVars, publishVars, fetchVars, tabVars>>

\* the put settles: an ok response with a content hash is the success, and
\* the service has pinned the content under the file's name
uploadSettle(o) ==
  /\ upc = "upload"
  /\ utrace' = SettledRequest(utrace, o)
  /\ upc' = "done"
  /\ IF o.kind = "ok" /\ o.cid # <<>>
     THEN /\ pins' = [pins EXCEPT ![uargs[1].environmentName] =
                        << [requestId |-> <<"req", o.cid>>, cid |-> o.cid] >>]
          /\ uret' = << [success |-> TRUE, ipfsHash |-> o.cid] >>
     ELSE /\ pins' = pins
          /\ uret' = << catchUpload(Err(
                          CASE o.kind = "reject" -> "fetch failed"
                            [] o.kind = "notok"  -> "QuickNode upload failed"
                            [] OTHER -> "No IPFS hash returned from QuickNode upload")) >>
  /\ UNCHANGED <<uargs, existingObject, pinnedBefore, pc, locals, now, backend,
                 appVars, cancelled, concVars, formVars, publishVars, fetchVars, tabVars>>

\* the caller has taken the result
uploadFinish ==
  /\ upc = "done"
  /\ upc' = "idle"
  /\ uargs' = <<>>
  /\ existingObject' = <<>>
  /\ utrace' = <<>>
  /\ uret' = <<>>
  /\ UNCHANGED <<pins, pinnedBefore, pc, locals, now, backend, appVars,
                 cancelled, concVars, formVars, publishVars, fetchVars, tabVars>>

NextUpload ==
  \/ \E e \in EnvNames, k \in ApiKeys : uploadConfigToIPFS(e, k)
  \/ \E o \in ServiceOutcomes : findSettle(o)
  \/ \E o \in ServiceOutcomes : deleteSettle(o)
  \/ \E o \in ServiceOutcomes : uploadSettle(o)
  \/ uploadFinish

\* uploadConfigToIPFS against the pinning service
SpecUpload == Init /\ [][NextUpload]_vars

(* ------------------------- uploadAndUpdateIPNS ------------------------ *)

\* the environmentConfig arguments: with and without a private key
EnvironmentConfigs ==
  { [ipnsPublicKey |-> "k51A", ipnsPrivateKey |-> "edA"],
    [ipnsPublicKey |-> "k51B", ipnsPrivateKey |-> ""] }

\* what the uploadToIPFS collaborator resolves to: ipfsHash is <<>> when
\* the result has none or an empty one
UploadResults ==
  { [success |-> sc, ipfsHash |-> h] : sc \in BOOLEAN, h \in {<<>>} \cup NewCids }

\* what updateIPNSRecord resolves to
IPNSUpdateResults == { [success |-> TRUE], [success |-> FALSE] }

\* getIPNSPrivateKeyFromConfig falling back to a key of its own
getIPNSPrivateKeyFromConfigDefault(environmentConfig) ==
  IF environmentConfig.ipnsPrivateKey # ""
  THEN environmentConfig.ipnsPrivateKey ELSE "edB"

\* getIPNSPrivateKeyFromConfig: the key of the environment, "" for null
getIPNSPrivateKeyFromConfig(environmentConfig) ==
  environmentConfig.ipnsPrivateKey

CollaboratorCall(name, callArgs) ==
  [call |-> name, args |-> callArgs, status |-> "pending"]

\* the last call of the trace settles
SettledCollaboratorCall(tr, o) ==
  [tr EXCEPT ![Len(tr)] =
     [call |-> tr[Len(tr)].call, args |-> tr[Len(tr)].args,
      status |-> IF o.threw THEN "threw" ELSE "ok"]]

\* uploadAndUpdateIPNS(config, environmentName, environmentConfig,
\* quickNodeApiKey, uploadToIPFS) is called: the upload is started
uploadAndUpdateIPNS(environmentName, environmentConfig, quickNodeApiKey) ==
  /\ wpc = "idle"
  /\ wargs' = << [environmentName |-> environmentName,
                  environmentConfig |-> environmentConfig,
                  quickNodeApiKey |-> quickNodeApiKey] >>
  /\ wtrace' = << CollaboratorCall("uploadToIPFS",
                                   <<environmentName, quickNodeApiKey>>) >>
  /\ wret' = <<>>
  /\ wpc' = "upload"
  /\ UNCHANGED <<pc, locals, now, backend, appVars, cancelled, concVars,
                 formVars, uploadVars, fetchVars, tabVars>>

\* the upload settles: without success, a content hash and a private key
\* the call returns the upload's result alone, otherwise it publishes
wrapperUploadSettle(o) ==
  /\ wpc = "upload"
  /\ IF o.threw
     THEN /\ wtrace' = SettledCollaboratorCall(wtrace, o)
          /\ wret' = << [kind |-> "rejected", error |-> <<o.error>>, ipfsResult |-> <<>>,
                         ipnsResult |-> <<>>] >>
          /\ wpc' = "done"
     ELSE IF ~o.result.success \/ o.result.ipfsHash = <<>>
     THEN /\ wtrace' = SettledCollaboratorCall(wtrace, o)
          /\ wret' = << [kind |-> "returned", error |-> <<>>, ipfsResult |-> <<o.result>>,
                         ipnsResult |-> <<>>] >>
          /\ wpc' = "done"
     ELSE LET privateKey ==
                getIPNSPrivateKeyFromConfig(wargs[1].environmentConfig) IN
          IF privateKey = ""
          THEN /\ wtrace' = SettledCollaboratorCall(wtrace, o)
               /\ wret' = << [kind |-> "returned", error |-> <<>>, ipfsResult |-> <<o.result>>,
                              ipnsResult |-> <<>>] >>
               /\ wpc' = "done"
          ELSE /\ wtrace' = Append(SettledCollaboratorCall(wtrace, o),
                              CollaboratorCall("updateIPNSRecord",
                                               <<o.result.ipfsHash, privateKey>>))
               /\ wret' = << [kind |-> "pending", error |-> <<>>, ipfsResult |-> <<o.result>>,
                              ipnsResult |-> <<>>] >>
               /\ wpc' = "publish"
  /\ UNCHANGED <<wargs, pc, locals, now, backend, appVars, cancelled, concVars,
                 formVars, uploadVars, fetchVars, tabVars>>

\* the publication settles and the call returns both results
wrapperPublishSettle(o) ==
  /\ wpc = "publish"
  /\ wtrace' = SettledCollaboratorCall(wtrace, o)
  /\ wret' = IF o.threw
             THEN << [kind |-> "rejected", error |-> <<o.error>>, ipfsResult |-> <<>>,
                      ipnsResult |-> <<>>] >>
             ELSE << [kind |-> "returned", error |-> <<>>, ipfsResult |-> wret[1].ipfsResult,
                      ipnsResult |-> <<o.result>>] >>
  /\ wpc' = "done"
  /\ UNCHANGED <<wargs, pc, locals, now, backend, appVars, cancelled, concVars,
                 formVars, uploadVars, fetchVars, tabVars>>

\* the caller has taken the result
wrapperFinish ==
  /\ wpc = "done"
  /\ wpc' = "idle"
  /\ wargs' = <<>>
  /\ wtrace' = <<>>
  /\ wret' = <<>>
  /\ UNCHANGED <<pc, locals, now, backend, appVars, cancelled, concVars,
                 formVars, uploadVars, fetchVars, tabVars>>

NextPublish ==
  \/ \E e \in EnvNames, ec \in EnvironmentConfigs, k \in ApiKeys :
       uploadAndUpdateIPNS(e, ec, k)
  \/ \E r \in UploadResults : wrapperUploadSettle(Resolves(r))
  \/ \E e \in Thrown : wrapperUploadSettle(Throw(e))
  \/ \E r \in IPNSUpdateResults : wrapperPublishSettle(Resolves(r))
  \/ \E e \in Thrown : wrapperPublishSettle(Throw(e))
  \/ wrapperFinish

\* uploadAndUpdateIPNS against its two collaborators
SpecPublish == Init /\ [][NextPublish]_vars

(* --------------------------- properties ------------------------------- *)

IsResolve ==
  op \in {"resolveIPNSFromPublicKey", "resolveIPNSFromPrivateKey"}

IsUpdate == op = "updateIPNSRecord"

Returned == pc = "done" /\ ret # <<>> /\ ret[1].kind = "return"

\* the positions of the trace where collaborator c was called
CallsOf(c) == {i \in 1..Len(trace) : trace[i].call = c}

\* the strategy list of the running resolve function
MethodsOfOp ==
  IF op = "resolveIPNSFromPublicKey" THEN PubResolutionMethods
  ELSE PrivResolutionMethods

\* the identity the running resolve function probes with
NameOfOp ==
  IF op = "resolveIPNSFromPublicKey" THEN ipnsPublicKey ELSE ipnsName

\* C1: resolution fallback order.  In a resolve call the probes are made in
\* the order of the strategy list, each with the call's identity; when
\* strategies 1..k-1 failed and strategy k succeeded, no later strategy is
\* ever invoked, and the call returns success=true with exactly the content
\* hash strategy k produced.
C1_FallbackOrder ==
  IsResolve =>
    /\ Len(trace) <= Len(MethodsOfOp)
    /\ \A k \in 1..Len(trace) :
         /\ trace[k].call = "fetch"
         /\ trace[k].url = MethodsOfOp[k].url
         /\ trace[k].name = NameOfOp
         /\ \A j \in 1..(k - 1) : trace[j].status = "threw"
         /\ trace[k].status = "ok" =>
              /\ Len(trace) = k
              /\ Returned
              /\ ret[1].value.success = TRUE
              /\ ret[1].value.ipfsHash = trace[k].value

\* a resolve call whose first strategy failed and whose second succeeded
C1_Witness ==
  /\ IsResolve
  /\ Returned
  /\ Len(trace) = 2
  /\ trace[1].status = "threw"
  /\ trace[2].status = "ok"
  /\ ret[1].value.success
  /\ ret[1].value.ipfsHash = <<"b", "a">>

AllStrategiesFailed ==
  /\ IsResolve
  /\ pc = "done"
  /\ Len(trace) = Len(MethodsOfOp)
  /\ \A j \in 1..Len(trace) : trace[j].status = "threw"

\* C2: resolution exhaustion.  When every strategy of a resolve call has
\* failed, the call returns success=false with the non-empty error "All
\* resolution methods failed" and without a content hash.
C2_Exhaustion ==
  AllStrategiesFailed =>
    /\ Returned
    /\ ret[1].value.success = FALSE
    /\ "error" \in DOMAIN ret[1].value
    /\ ret[1].value.error = "All resolution methods failed"
    /\ ret[1].value.error # ""
    /\ "ipfsHash" \notin DOMAIN ret[1].value

\* a resolve through the private key whose two strategies both failed
C2_Witness ==
  /\ AllStrategiesFailed
  /\ op = "resolveIPNSFromPrivateKey"
  /\ Returned
  /\ ~ret[1].value.success

\* C3: a resolve call succeeds only on a well-formed content hash: whenever
\* a resolve result has success=true, its content hash is non-empty and
\* parses as a content identifier.
C3_SuccessOnlyWellFormed ==
  (IsResolve /\ Returned /\ ret[1].value.success) =>
    /\ ret[1].value.ipfsHash # <<>>
    /\ CIDparses(ret[1].value.ipfsHash)

HeliaOpened ==
  \E i \in CallsOf("createHeliaHTTP") : trace[i].status = "ok"

\* C4: scoped release on publish.  When updateIPNSRecord returns, every
\* Helia instance it created has had stop() called on it, once, as the last
\* collaborator call, and that stop() has settled; no instance is left
\* running, and an instance whose stop() resolved is stopped.
C4_ScopedRelease ==
  (IsUpdate /\ pc = "done" /\ HeliaOpened) =>
    /\ helia # "running"
    /\ Cardinality(CallsOf("helia.stop")) = 1
    /\ trace[Len(trace)].call = "helia.stop"
    /\ trace[Len(trace)].status # "pending"
    /\ trace[Len(trace)].status = "ok" => helia = "stopped"

\* updateIPNSRecord returns after a rejected routing put, Helia stopped
C4_Witness ==
  /\ IsUpdate
  /\ pc = "done"
  /\ HeliaOpened
  /\ \E i \in CallsOf("helia.routing.put") : trace[i].status = "threw"
  /\ helia = "stopped"

PublishPrerequisites ==
  {"privateKeyFromProtobuf", "keyTypeCheck", "CID.parse", "createIPNSRecord",
   "marshalIPNSRecord"}

\* C5: no partial record is published.  The routing put is invoked only
\* after key decoding, key-type check, content-hash parsing, record signing
\* and record serialization have each succeeded earlier in the same call;
\* once one of these steps has failed, the call contains no routing put.
C5_NoPartialPublish ==
  /\ \A i \in CallsOf("helia.routing.put") :
       \A c \in PublishPrerequisites :
         \E j \in 1..(i - 1) : trace[j].call = c /\ trace[j].status = "ok"
  /\ (\E j \in 1..Len(trace) :
        trace[j].call \in PublishPrerequisites /\ trace[j].status = "threw")
       => CallsOf("helia.routing.put") = {}

\* the routing put is in flight, every step before it having succeeded
C5_Witness ==
  /\ IsUpdate
  /\ pc = "put"
  /\ trace[Len(trace)].call = "helia.routing.put"
  /\ trace[Len(trace)].status = "pending"

\* the sequence number inside a marshalled record
MarshaledSequence(bytes) == bytes[2]

\* C6: sequence-number monotonicity.  The engine puts a record to the
\* routing backend only when its sequence number is higher than that of the
\* record already published under the same identity.
C6_SequenceMonotonic ==
  [][(pc # "put" /\ pc' = "put") =>
       LET put == trace'[Len(trace')] IN
       backend[put.routingKey[2]] # <<>> =>
         put.record.sequence > MarshaledSequence(backend[put.routingKey[2]][1])
    ]_vars

\* C7: errors are values.  Whatever the collaborators do, a call of
\* updateIPNSRecord, resolveIPNSFromPublicKey or resolveIPNSFromPrivateKey
\* that completes does so by returning (never by throwing) a result object
\* with a boolean success field.
C7_ErrorsAreValues ==
  pc = "done" =>
    /\ ret # <<>>
    /\ ret[1].kind = "return"
    /\ "success" \in DOMAIN ret[1].value
    /\ ret[1].value.success \in BOOLEAN

\* updateIPNSRecord returns although helia.stop() rejected
C7_Witness ==
  /\ IsUpdate
  /\ Returned
  /\ helia = "stop failed"
  /\ trace[Len(trace)].status = "threw"

UnsupportedKey ==
  /\ op \in {"updateIPNSRecord", "resolveIPNSFromPrivateKey"}
  /\ ~privateKeyFromProtobuf(privateKeyBase64).threw
  /\ privateKeyFromProtobuf(privateKeyBase64).key.type # "Ed25519"

\* C8: an unsupported key type is rejected at the boundary.  In a call of
\* updateIPNSRecord or resolveIPNSFromPrivateKey whose key decodes to a type
\* other than Ed25519, no record is signed, serialized or put and no strategy
\* is probed, and the call returns success=false with an error.
C8_UnsupportedKeyRejected ==
  UnsupportedKey =>
    /\ \A i \in 1..Len(trace) :
         trace[i].call \notin {"createIPNSRecord", "marshalIPNSRecord",
                               "helia.routing.put", "fetch"}
    /\ pc = "done" =>
         /\ Returned
         /\ ret[1].value.success = FALSE
         /\ "error" \in DOMAIN ret[1].value

\* updateIPNSRecord has returned the key-type error for an RSA key
C8_Witness ==
  /\ UnsupportedKey
  /\ IsUpdate
  /\ Returned
  /\ \E i \in CallsOf("keyTypeCheck") : trace[i].status = "threw"
  /\ ret[1].value.error = "Only libp2p Ed25519 keys are supported"

\* resolveIPNSFromPrivateKey has returned the key-type error for an RSA key
C8_WitnessResolve ==
  /\ UnsupportedKey
  /\ op = "resolveIPNSFromPrivateKey"
  /\ Returned
  /\ ret[1].value.error = "Only libp2p Ed25519 keys are supported"

\* C9: malformed content hashes are rejected before signing.  In a call of
\* updateIPNSRecord whose content hash does not parse as a content
\* identifier, neither record signing nor the routing put is performed, and
\* the call returns success=false.
C9_MalformedHashRejected ==
  (IsUpdate /\ ~CIDparses(ipfsHash)) =>
    /\ \A i \in 1..Len(trace) :
         trace[i].call \notin {"createIPNSRecord", "helia.routing.put"}
    /\ pc = "done" => (Returned /\ ret[1].value.success = FALSE)

\* updateIPNSRecord has returned after CID.parse threw on a valid key
C9_Witness ==
  /\ IsUpdate
  /\ Returned
  /\ ~CIDparses(ipfsHash)
  /\ \E i \in CallsOf("CID.parse") : trace[i].status = "threw"
  /\ ~ret[1].value.success

PutSucceeded ==
  \E i \in CallsOf("helia.routing.put") : trace[i].status = "ok"

\* C10: publish success reflects the routing backend.  updateIPNSRecord
\* returns success=true exactly when the routing put resolved; in every
\* other case, a rejected put included, it returns success=false with an
\* error and without ipnsName.
C10_SuccessReflectsPut ==
  (IsUpdate /\ pc = "done") =>
    /\ Returned
    /\ ret[1].value.success <=> PutSucceeded
    /\ ~PutSucceeded =>
         /\ "error" \in DOMAIN ret[1].value
         /\ "ipnsName" \notin DOMAIN ret[1].value

\* updateIPNSRecord returns a failure after the routing put rejected
C10_Witness ==
  /\ IsUpdate
  /\ Returned
  /\ \E i \in CallsOf("helia.routing.put") : trace[i].status = "threw"
  /\ ~ret[1].value.success
  /\ "error" \in DOMAIN ret[1].value

\* updateIPNSRecord returns success after the routing put resolved
C10_WitnessSuccess ==
  /\ IsUpdate
  /\ Returned
  /\ PutSucceeded
  /\ ret[1].value.success
  /\ ret[1].value.ipnsName = "k51A"

\* the probes of the running call that have not settled
InFlight == {i \in CallsOf("fetch") : trace[i].status = "pending"}

\* C12: sequential fallback.  Within one resolve call at most one probe is
\* in flight at any time, only the latest probe can be in flight, and a
\* probe is issued only after the probe before it completed with a failure.
C12_SequentialFallback ==
  IsResolve =>
    /\ Cardinality(InFlight) <= 1
    /\ InFlight \subseteq {Len(trace)}
    /\ \A i \in 2..Len(trace) : trace[i - 1].status = "threw"

\* the second probe is in flight after the first one failed
C12_Witness ==
  /\ IsResolve
  /\ pc = "fetch"
  /\ Len(trace) = 2
  /\ trace[1].status = "threw"
  /\ InFlight = {2}

\* C13: overall failure only on exhaustion.  resolveIPNSFromPublicKey
\* returns success=false only when every strategy of its list has been
\* invoked and has failed; after the failure of a strategy that is not the
\* last one the call has not returned, its next probe is in flight.
C13_FailureOnlyOnExhaustion ==
  op = "resolveIPNSFromPublicKey" =>
    /\ (Returned /\ ~ret[1].value.success) =>
         /\ Len(trace) = Len(PubResolutionMethods)
         /\ \A j \in 1..Len(trace) :
              /\ trace[j].call = "fetch"
              /\ trace[j].url = PubResolutionMethods[j].url
              /\ trace[j].status = "threw"
    /\ (Len(trace) < Len(PubResolutionMethods)
          /\ trace[Len(trace)].status = "threw") => pc # "done"
    /\ pc = "done" => Returned

\* resolveIPNSFromPublicKey returns the failure after both strategies failed
C13_Witness ==
  /\ op = "resolveIPNSFromPublicKey"
  /\ Returned
  /\ ~ret[1].value.success
  /\ Len(trace) = 2
  /\ trace[2].status = "threw"

(* ------------------- properties of two invocations -------------------- *)

\* the two invocations: the running one and the suspended one
TheCalls == {CallState, parked}

CallIsResolve(c) ==
  c.op \in {"resolveIPNSFromPublicKey", "resolveIPNSFromPrivateKey"}

CallReturned(c) == c.pc = "done" /\ c.ret # <<>> /\ c.ret[1].kind = "return"

\* the identity a resolve invocation was asked to resolve: its argument, or
\* the name of the key that is its argument
AskedIdentity(c) ==
  IF c.op = "resolveIPNSFromPublicKey" THEN c.ipnsPublicKey
  ELSE LET d == privateKeyFromProtobuf(c.privateKeyBase64) IN
       IF d.threw THEN "" ELSE getIPNSNameFromKeypair(d.key)

\* the gateways have behaved alike towards a and b: the probes both have
\* made so far settled the same way
SameAnswers(a, b) ==
  \A j \in 1..Len(a.trace) :
    j <= Len(b.trace) =>
      /\ a.trace[j].status = b.trace[j].status
      /\ a.trace[j].status = "ok" => a.trace[j].value = b.trace[j].value

\* a and b probe the same strategies in the same order with the same
\* identity, and once both have completed they have made the same probes
\* and completed alike
SameResolution(a, b) ==
  /\ \A j \in 1..Len(a.trace) :
       j <= Len(b.trace) =>
         /\ a.trace[j].url = b.trace[j].url
         /\ a.trace[j].name = b.trace[j].name
  /\ a.pc = "done" => Len(b.trace) <= Len(a.trace)
  /\ b.pc = "done" => Len(a.trace) <= Len(b.trace)
  /\ (a.pc = "done" /\ b.pc = "done") =>
       /\ a.trace = b.trace
       /\ a.ret = b.ret

\* C11: entry-point convergence.  When resolveIPNSFromPrivateKey runs on a
\* valid Ed25519 key K and resolveIPNSFromPublicKey on the identity derived
\* from K, and the gateways answer both alike, the two probe the same
\* strategies in the same order with the same identity and return identical
\* results.
C11_EntryPointConvergence ==
  \A a, b \in TheCalls :
    ( /\ a.op = "resolveIPNSFromPrivateKey"
      /\ a.keypair # <<>>
      /\ b.op = "resolveIPNSFromPublicKey"
      /\ b.ipnsPublicKey = AskedIdentity(a)
      /\ SameAnswers(a, b) )
    => SameResolution(a, b)

\* both entry points have returned the hash the second gateway gave for the
\* identity of key edA
C11_Witness ==
  /\ op = "resolveIPNSFromPrivateKey"
  /\ privateKeyBase64 = "edA"
  /\ parked.op = "resolveIPNSFromPublicKey"
  /\ parked.ipnsPublicKey = "k51A"
  /\ pc = "done"
  /\ parked.pc = "done"
  /\ Len(trace) = 2
  /\ trace = parked.trace
  /\ ret = parked.ret
  /\ ret[1].value.success

\* the order of the strategies, as documented in the source
DocumentedOrder ==
  <<"https://ipfs.io/ipns/", "https://cloudflare-ipfs.com/ipns/">>

\* C16: deterministic strategy order.  Every resolve call probes the ipfs.io
\* gateway first and the Cloudflare gateway second, and two calls of the same
\* resolve function with the same identity whose probes are answered alike
\* make the same sequence of probes and return the same result.
C16_DeterministicOrder ==
  /\ \A c \in TheCalls :
       CallIsResolve(c) =>
         /\ Len(c.trace) <= Len(DocumentedOrder)
         /\ \A j \in 1..Len(c.trace) : c.trace[j].url = DocumentedOrder[j]
  /\ \A a, b \in TheCalls :
       ( /\ CallIsResolve(a)
         /\ a.op = b.op
         /\ AskedIdentity(a) = AskedIdentity(b)
         /\ SameAnswers(a, b) )
       => SameResolution(a, b)

\* two calls of resolveIPNSFromPublicKey with the same identity have both
\* failed on ipfs.io and succeeded on Cloudflare
C16_Witness ==
  /\ op = "resolveIPNSFromPublicKey"
  /\ parked.op = "resolveIPNSFromPublicKey"
  /\ ipnsPublicKey = parked.ipnsPublicKey
  /\ pc = "done"
  /\ parked.pc = "done"
  /\ Len(trace) = 2
  /\ trace[1].status = "threw"
  /\ trace[2].status = "ok"
  /\ trace = parked.trace
  /\ ret = parked.ret

\* the invocations that have decoded a key and derived its name
Named ==
  {c \in TheCalls :
     c.op \in {"updateIPNSRecord", "resolveIPNSFromPrivateKey"}
       /\ c.keypair # <<>>}

C17_WitnessSameKey ==
  /\ op = "updateIPNSRecord"
  /\ parked.op = "resolveIPNSFromPrivateKey"
  /\ privateKeyBase64 = parked.privateKeyBase64
  /\ keypair # <<>>
  /\ parked.keypair # <<>>
  /\ ipnsName = parked.ipnsName

\* how the collaborators of an invocation have settled so far
StatusesOf(c) == [j \in 1..Len(c.trace) |-> c.trace[j].status]

\* the record and the routing key of every put of c are made of c's own
\* content hash, key and sequence number
OwnRecord(c) ==
  \A j \in 1..Len(c.trace) :
    c.trace[j].call = "helia.routing.put" =>
      /\ c.trace[j].record =
           createIPNSRecord(c.keypair[1], c.cid, c.sequenceNumber)
      /\ c.trace[j].routingKey = multihashToIPNSRoutingKey(c.keypair[1])
      /\ c.cid = c.ipfsHash

\* the routing session of c follows c's own calls: none before its own
\* createHeliaHTTP resolved, stopped only by its own helia.stop()
OwnSession(c) ==
  /\ c.op # "updateIPNSRecord" => c.helia = "undefined"
  /\ c.helia # "undefined" =>
       /\ Len(c.trace) >= 1
       /\ c.trace[1].call = "createHeliaHTTP"
       /\ c.trace[1].status = "ok"
  /\ c.helia \in {"stopped", "stop failed"} =>
       /\ c.trace[Len(c.trace)].call = "helia.stop"
       /\ c.trace[Len(c.trace)].status =
            (IF c.helia = "stopped" THEN "ok" ELSE "threw")

\* C20: independence of concurrent invocations.  While two invocations run
\* interleaved, a step of one leaves every local of the other (strategy
\* position, key, record, routing session, result) as it was, and
\* suspending and resuming changes nothing; the record an invocation puts
\* and the routing session it holds are its own; and two publish
\* invocations with the same arguments whose collaborators settled alike
\* complete alike.
C20_Independence ==
  [][ /\ cur' = cur => parked' = parked
      /\ cur' # cur => (parked' = CallState /\ CallState' = parked)
      /\ \A c \in {CallState', parked'} : OwnRecord(c) /\ OwnSession(c)
      /\ \A a, b \in {CallState', parked'} :
           ( /\ a.op = "updateIPNSRecord"
             /\ b.op = "updateIPNSRecord"
             /\ a.ipfsHash = b.ipfsHash
             /\ a.privateKeyBase64 = b.privateKeyBase64
             /\ a.pc = "done"
             /\ b.pc = "done"
             /\ StatusesOf(a) = StatusesOf(b) )
           => a.ret = b.ret
    ]_vars

\* a publish under key edA is suspended while its put is pending, with its
\* routing session open, and a resolve of another identity has had its
\* second probe answered
C20_Witness ==
  /\ parked.op = "updateIPNSRecord"
  /\ parked.pc = "put"
  /\ parked.helia = "running"
  /\ parked.privateKeyBase64 = "edA"
  /\ op = "resolveIPNSFromPublicKey"
  /\ ipnsPublicKey = "k51B"
  /\ pc = "done"
  /\ Len(trace) = 2
  /\ helia = "undefined"

\* the strategies a resolve call has probed so far
ProbedUrls == {trace[j].url : j \in 1..Len(trace)}

\* C19: single-shot termination.  When every fetch eventually settles, a
\* resolve call that has been started eventually returns a result; it never
\* probes a strategy twice, and when it returns none of its probes is still
\* pending.
C19_SingleShot ==
  /\ (IsResolve /\ pc = "fetch") ~> (IsResolve /\ pc = "done" /\ Returned)
  /\ [](IsResolve =>
          /\ Cardinality(ProbedUrls) = Len(trace)
          /\ pc = "done" =>
               \A j \in 1..Len(trace) : trace[j].status # "pending")

\* a resolve call has returned after both of its strategies failed, each
\* probed once
C19_Witness ==
  /\ IsResolve
  /\ pc = "done"
  /\ Returned
  /\ Len(trace) = 2
  /\ trace[1].url # trace[2].url
  /\ trace[1].status = "threw"
  /\ trace[2].status = "threw"

(* ------------------- properties of the round trip --------------------- *)

\* the content hash of the record the backend holds for an identity
Published(name) ==
  LET p == CHOOSE q \in KeysNamed(name) : backend[q] # <<>>
  IN backend[p][1][1]

HasRecord(name) == \E p \in KeysNamed(name) : backend[p] # <<>>

C14_WitnessPublish ==
  /\ IsUpdate
  /\ Returned
  /\ ret[1].value.success
  /\ ipfsHash = <<"b", "a">>
  /\ privateKeyBase64 = "edA"
  /\ Published("k51A") = <<"b", "a">>

(* -------------------- properties of ConfigManager --------------------- *)

\* this step issues a collaborator call: a gateway probe, or a call on the
\* way to the routing put
IssuesCall ==
  /\ Len(trace') > Len(trace)
  /\ trace'[Len(trace')].status = "pending"

\* C15: cancellation.  After the application has abandoned a running
\* resolve or publish by resetting the configuration, the engine issues no
\* further probe or call, and from then on nothing of that invocation is
\* left pending.
C15_Cancellation ==
  [][ (cancelled /\ cancelled') =>
        /\ ~IssuesCall
        /\ \A j \in 1..Len(trace') : trace'[j].status # "pending" ]_vars

\* the user has reset while the ipfs.io probe was pending, the probe has
\* failed and the engine has issued the Cloudflare probe
C15_ProbeAfterReset ==
  /\ cancelled
  /\ ~TabsShown
  /\ IsResolve
  /\ pc = "fetch"
  /\ Len(trace) = 2
  /\ trace[2].status = "pending"

(* --------------------- properties of ConfigUpload --------------------- *)

\* the entries that are not __env and are not an object with an
\* ipnsPublicKey property
Offending(es) ==
  {i \in 1..Len(es) :
     /\ es[i].name # "__env"
     /\ ~(es[i].value.kind = "object"
            /\ "ipnsPublicKey" \in es[i].value.has)}

FirstOffending(es) ==
  CHOOSE i \in Offending(es) : \A j \in Offending(es) : i <= j

\* validateConfigStructure answers valid exactly for the objects all of
\* whose environments have an ipnsPublicKey
ValidExactly ==
  validation # <<>> =>
    (validation[1].valid <=>
       (parsed[1].kind = "object" /\ Offending(parsed[1].entries) = {}))

\* C27 as stated: validateConfigStructure returns valid=true exactly when the
\* parsed value is a non-null object whose entries other than __env are all
\* non-null objects with an ipnsPublicKey property, and every valid=false
\* comes with an error naming the first offending environment.
C27_AlwaysNamesEnvironment ==
  /\ ValidExactly
  /\ (validation # <<>> /\ ~validation[1].valid) =>
       /\ "envName" \in DOMAIN validation[1].error
       /\ Offending(parsed[1].entries) # {}
       /\ validation[1].error.envName =
            parsed[1].entries[FirstOffending(parsed[1].entries)].name

\* C27, amended: validateConfigStructure returns valid=true exactly when the
\* parsed value is a non-null object whose entries other than __env are all
\* non-null objects with an ipnsPublicKey property; for an object with an
\* offending entry the error names the first offending environment, and for
\* a value that is not an object the error is "Invalid JSON structure" and
\* names no environment.
C27_ValidateConfigStructure ==
  /\ ValidExactly
  /\ (validation # <<>> /\ ~validation[1].valid) =>
       IF parsed[1].kind = "object"
       THEN /\ "envName" \in DOMAIN validation[1].error
            /\ validation[1].error.envName =
                 parsed[1].entries[FirstOffending(parsed[1].entries)].name
       ELSE validation[1].error = [message |-> "Invalid JSON structure"]

\* an object whose first environment is fine and whose second has no
\* ipnsPublicKey has been rejected, naming the second
C27_Witness ==
  /\ validation # <<>>
  /\ ~validation[1].valid
  /\ parsed[1].kind = "object"
  /\ Len(parsed[1].entries) = 2
  /\ Offending(parsed[1].entries) = {2}
  /\ validation[1].error.envName = parsed[1].entries[2].name

\* null has been rejected as "Invalid JSON structure"
C27_WitnessNotObject ==
  /\ validation # <<>>
  /\ parsed[1].kind = "null"
  /\ ~validation[1].valid

\* the structure the upload form shows as expected: an _env section
\* without ipnsPublicKey, and environments that each have an ipnsPublicKey
ExpectedStructure(p) ==
  /\ p.kind = "object"
  /\ \E i \in 1..Len(p.entries) :
       /\ p.entries[i].name = "_env"
       /\ p.entries[i].value.kind = "object"
       /\ "ipnsPublicKey" \notin p.entries[i].value.has
  /\ \E i \in 1..Len(p.entries) : p.entries[i].name \in {"dev", "prod"}
  /\ \A i \in 1..Len(p.entries) :
       /\ p.entries[i].name # "__env"
       /\ p.entries[i].name # "_env" =>
            /\ p.entries[i].value.kind = "object"
            /\ "ipnsPublicKey" \in p.entries[i].value.has

\* C21: a configuration with the structure the upload form shows as
\* expected is accepted by validateConfigStructure and loaded without an
\* error.
C21_ExpectedStructureAccepted ==
  (parsed # <<>> /\ ExpectedStructure(parsed[1])) =>
    /\ validation[1].valid
    /\ formError = <<>>

\* the expected structure has been submitted and the form shows an error
\* that names the _env section
C21_Rejected ==
  /\ parsed # <<>>
  /\ ExpectedStructure(parsed[1])
  /\ ~validation[1].valid
  /\ validation[1].error.envName = "_env"
  /\ formError # <<>>
  /\ configStructure = <<>>

(* --------------------- properties of ipfsUploader --------------------- *)

\* the positions of the HTTP requests of a kind
RequestsOf(r) == {j \in 1..Len(utrace) : utrace[j].request = r}

\* C23: delete-before-upload.  When a pinned object of the file's name was
\* found, the upload request is sent only right after the deletion of that
\* object was requested and succeeded; a failed deletion ends the call with
\* success=false and no upload request.
C23_DeleteBeforeUpload ==
  /\ \A j \in RequestsOf("POST put-object") :
       existingObject # <<>> =>
         /\ j > 1
         /\ utrace[j - 1].request = "DELETE pinning"
         /\ utrace[j - 1].target = existingObject[1].requestId
         /\ utrace[j - 1].status = "ok"
  /\ \A j \in RequestsOf("DELETE pinning") :
       utrace[j].status \in {"reject", "notok"} =>
         /\ RequestsOf("POST put-object") = {}
         /\ upc = "done"
         /\ ~uret[1].success
  /\ (existingObject # <<>> /\ upc \in {"upload", "done"}) =>
       RequestsOf("DELETE pinning") # {}

\* the existing object has been deleted and the upload request sent
C23_Witness ==
  /\ upc = "upload"
  /\ existingObject # <<>>
  /\ Len(utrace) = 3
  /\ utrace[2].request = "DELETE pinning"
  /\ utrace[2].status = "ok"
  /\ utrace[3].request = "POST put-object"

\* the deletion has failed and the call has returned the failure
C23_WitnessDeleteFailed ==
  /\ upc = "done"
  /\ Len(utrace) = 2
  /\ utrace[2].request = "DELETE pinning"
  /\ utrace[2].status = "notok"
  /\ ~uret[1].success

\* C26: an API key is required for upload.  Called without a QuickNode API
\* key, uploadConfigToIPFS returns success=false with an error message and
\* sends no HTTP request.
C26_ApiKeyRequired ==
  (upc # "idle" /\ uargs[1].quickNodeApiKey = "") =>
    /\ upc = "done"
    /\ utrace = <<>>
    /\ ~uret[1].success
    /\ uret[1].error # ""
    /\ pins = pinnedBefore

\* uploadConfigToIPFS has returned the failure for a missing key while an
\* object of the file's name is pinned
C26_Witness ==
  /\ upc = "done"
  /\ uargs[1].quickNodeApiKey = ""
  /\ ~uret[1].success
  /\ utrace = <<>>
  /\ pins[uargs[1].environmentName] # <<>>

\* C29: replacement does not lose content.  Whenever uploadConfigToIPFS
\* returns success=false, the object that was pinned under the file's name
\* before the call is still pinned.
C29_NoContentLost ==
  (upc = "done" /\ ~uret[1].success
     /\ pinnedBefore[uargs[1].environmentName] # <<>>) =>
    pins[uargs[1].environmentName] = pinnedBefore[uargs[1].environmentName]

\* the call has deleted the pinned object, the upload has failed, and
\* nothing is pinned under the file's name
C29_ContentLost ==
  /\ upc = "done"
  /\ ~uret[1].success
  /\ pinnedBefore[uargs[1].environmentName] # <<>>
  /\ pins[uargs[1].environmentName] = <<>>
  /\ Len(utrace) = 3
  /\ utrace[2].status = "ok"

(* ------------------ properties of uploadAndUpdateIPNS ------------------ *)

\* the positions of the calls of a collaborator
WrapperCallsOf(name) == {j \in 1..Len(wtrace) : wtrace[j].call = name}

\* the upload resolved with success and a content hash, and the
\* environment has a private key
PublishDue ==
  /\ wret # <<>>
  /\ wret[1].ipfsResult # <<>>
  /\ wret[1].ipfsResult[1].success
  /\ wret[1].ipfsResult[1].ipfsHash # <<>>
  /\ wargs[1].environmentConfig.ipnsPrivateKey # ""

\* C22: upload-then-publish ordering.  uploadAndUpdateIPNS calls the upload
\* collaborator first and exactly once; it calls updateIPNSRecord at most
\* once, only after the upload returned success with a content hash and only
\* when the environment has a private key, passing that same hash; in every
\* other case the returned value has no ipnsResult and no publish is
\* attempted.
C22_UploadThenPublish ==
  wpc # "idle" =>
    /\ WrapperCallsOf("uploadToIPFS") = {1}
    /\ wtrace[1].args = <<wargs[1].environmentName, wargs[1].quickNodeApiKey>>
    /\ WrapperCallsOf("updateIPNSRecord") \subseteq {2}
    /\ \A j \in WrapperCallsOf("updateIPNSRecord") :
         /\ wtrace[1].status = "ok"
         /\ PublishDue \/ wret[1].kind = "rejected"
         /\ wargs[1].environmentConfig.ipnsPrivateKey # ""
         /\ wret[1].kind # "rejected" =>
              wtrace[j].args = <<wret[1].ipfsResult[1].ipfsHash,
                                 wargs[1].environmentConfig.ipnsPrivateKey>>
         /\ wtrace[j].args[1] \in NewCids
    /\ (wpc = "done" /\ wret[1].kind = "returned" /\ ~PublishDue) =>
         /\ wret[1].ipnsResult = <<>>
         /\ WrapperCallsOf("updateIPNSRecord") = {}
    /\ (wpc = "done" /\ wtrace[1].status = "threw") =>
         WrapperCallsOf("updateIPNSRecord") = {}

\* both collaborators were called and the call returned both results
C22_Witness ==
  /\ wpc = "done"
  /\ Len(wtrace) = 2
  /\ wtrace[2].call = "updateIPNSRecord"
  /\ wret[1].kind = "returned"
  /\ wret[1].ipnsResult # <<>>

\* the upload succeeded for an environment without a private key
C22_WitnessNoKey ==
  /\ wpc = "done"
  /\ wret[1].kind = "returned"
  /\ wret[1].ipfsResult[1].success
  /\ wret[1].ipfsResult[1].ipfsHash # <<>>
  /\ wargs[1].environmentConfig.ipnsPrivateKey = ""
  /\ Len(wtrace) = 1

\* the upload failed for an environment with a private key
C22_WitnessUploadFailed ==
  /\ wpc = "done"
  /\ wret[1].kind = "returned"
  /\ ~wret[1].ipfsResult[1].success
  /\ wargs[1].environmentConfig.ipnsPrivateKey # ""
  /\ Len(wtrace) = 1

(* ------------------- properties of handleFetch ------------------------ *)

\* C24: prefer private-key resolution.  When the environment has an
\* ipnsPrivateKey, handleFetch resolves through resolveIPNSFromPrivateKey
\* only, and the current IPFS hash stored for that environment is never set
\* from the gateway-header hash of the content fetch; that header hash is
\* stored only for environments without a private key.
C24_PreferPrivateKey ==
  [][\A n \in EnvNames :
       /\ (fetches[n].pc = "idle" /\ fetches'[n].pc = "resolve") =>
            \A e \in EnvironmentNamed(n) :
              /\ fetches'[n].ipnsPrivateKey = e.ipnsPrivateKey
              /\ e.ipnsPrivateKey # "" =>
                   fetches'[n].calls =
                     << [call |-> "resolveIPNSFromPrivateKey",
                         arg |-> e.ipnsPrivateKey] >>
       /\ (fetches[n].pc # "idle" /\ fetches[n].ipnsPrivateKey # "") =>
            \A j \in 1..Len(fetches'[n].calls) :
              fetches'[n].calls[j].call # "resolveIPNSFromPublicKey"
       /\ (fetches[n].pc = "fetch" /\ fetches'[n].pc = "idle"
             /\ fetches[n].ipnsPrivateKey # "") =>
            currentIPFSHashes' = currentIPFSHashes
       /\ (fetches[n].pc = "fetch" /\ fetches'[n].pc = "idle"
             /\ currentIPFSHashes' # currentIPFSHashes) =>
            fetches[n].ipnsPrivateKey = ""
    ]_vars

\* a handleFetch of an environment with a private key has resolved by that
\* key, stored the resolved hash and is fetching the content
C24_Witness ==
  /\ fetches["prod"].pc = "fetch"
  /\ fetches["prod"].ipnsPrivateKey = "edA"
  /\ fetches["prod"].calls[1].call = "resolveIPNSFromPrivateKey"
  /\ Prop(currentIPFSHashes, "prod") = << <<"b", "a">> >>

\* the hash of the gateway's header is the current hash of an environment
\* without a private key, and an environment with one has fetched content
C24_WitnessHeaderHash ==
  /\ Prop(currentIPFSHashes, "dev") = << <<"b", "b">> >>
  /\ Prop(fetchedConfigs, "prod") # <<>>
  /\ fetches["prod"].pc = "idle"

\* C28: no stale write after reset.  Once handleReset has run, a handleFetch
\* that was started before it and completes afterwards does not write to
\* fetchedConfigs, currentIPFSHashes or error.
C28_NoStaleWrite ==
  [][\A n \in EnvNames :
       (fetches[n].stale /\ fetches'[n] # fetches[n]) =>
         UNCHANGED <<fetchedConfigs, currentIPFSHashes, error>>
    ]_vars

\* the application shows the upload form after a reset, and content
\* fetched for the configuration that was reset is in its state
C28_StaleWrite ==
  /\ configStructure = <<>>
  /\ fetchedConfigs # <<>>
  /\ currentIPFSHashes # <<>>

\* C30: the loading flag is always cleared.  handleFetch sets
\* loading[environment] to true when it starts, and every handleFetch that
\* starts eventually sets loading[environment] to false, whatever happens
\* in between.
C30_LoadingCleared ==
  \A n \in EnvNames :
    /\ [](fetches[n].pc # "idle" => Prop(loading, n) = <<TRUE>>)
    /\ (fetches[n].pc # "idle") ~>
         (fetches[n].pc = "idle" /\ Prop(loading, n) = <<FALSE>>)

\* a handleFetch has ended with an error and the loading flag cleared
\* while the resolved hash of its environment is stored
C30_Witness ==
  \E n \in EnvNames :
    /\ fetches[n].pc = "idle"
    /\ Prop(loading, n) = <<FALSE>>
    /\ error # <<>>

(* ------------------ properties of EnvironmentTab ----------------------- *)

\* the key-value list that holds exactly the entries of a parsed object
ExactlyEntries(o) == AsKeyValues(o)

\* handleSaveRawJson has run for the environment on valid JSON
SavedStep(n) ==
  /\ rawJsonValue[n].kind = "json"
  /\ rawJsonValue[n].value.kind = "object"
  /\ uploadResult'[n] = <<"Changes saved locally">>
  /\ \/ uploadResult'[n] # uploadResult[n]
     \/ fetchedConfigs' # fetchedConfigs

\* C25: raw-JSON save replaces the configuration.  After handleSaveRawJson
\* has run on valid JSON, the environment's key-value list holds exactly
\* the entries of the parsed JSON, so no key appears twice and no old entry
\* survives.
C25_SaveReplaces ==
  [][\A n \in EnvNames :
       SavedStep(n) =>
         \/ Prop(fetchedConfigs', n) = << ExactlyEntries(rawJsonValue[n].value) >>
         \/ /\ Prop(fetchedConfigs', n) = <<>>
            /\ rawJsonValue[n].value.entries = <<>>
    ]_vars

\* after a save the list of the environment holds a key twice
C25_KeyTwice ==
  \E n \in EnvNames :
    /\ uploadResult[n] = <<"Changes saved locally">>
    /\ Prop(fetchedConfigs, n) # <<>>
    /\ \E i, j \in 1..Len(Prop(fetchedConfigs, n)[1]) :
         /\ i < j
         /\ Prop(fetchedConfigs, n)[1][i].key = Prop(fetchedConfigs, n)[1][j].key

(* ------------- the per-environment frame of handleFetch --------------- *)

\* a handleFetch of the environment takes a step: it starts, its resolution
\* settles, or its content fetch settles
HandleFetchStep(n) == fetches'[n].pc # fetches[n].pc

\* C31: per-environment frame.  A handleFetch for environment A, also when
\* interleaved with a handleFetch for another environment B, leaves the
\* entries of B in fetchedConfigs, currentIPFSHashes and loading unchanged.
C31_PerEnvironmentFrame ==
  [][\A a \in EnvNames, b \in EnvNames :
       (a # b /\ HandleFetchStep(a)) =>
         /\ Prop(fetchedConfigs', b) = Prop(fetchedConfigs, b)
         /\ Prop(currentIPFSHashes', b) = Prop(currentIPFSHashes, b)
         /\ Prop(loading', b) = Prop(loading, b)
    ]_vars

\* a handleFetch of dev has stored its content and its hash while a
\* handleFetch of prod is running, and prod has entries of its own from an
\* earlier fetch
C31_Witness ==
  /\ fetches["prod"].pc = "fetch"
  /\ Prop(loading, "prod") = <<TRUE>>
  /\ Prop(loading, "dev") = <<FALSE>>
  /\ Prop(fetchedConfigs, "dev") # <<>>
  /\ Prop(currentIPFSHashes, "dev") = << <<"b", "b">> >>
  /\ Prop(fetchedConfigs, "prod") # <<>>
  /\ Prop(currentIPFSHashes, "prod") = << <<"b", "a">> >>
  /\ loading[1].name = "prod"

====
